---- MODULE Spec2Model ----
(***************************************************************************)
(* Healthrix performance scoring engine (healthrix_automation).            *)
(*                                                                         *)
(* The engine's numbers are Python floats.  They are modelled as exact     *)
(* rationals [n, d] in lowest terms with d > 0, so that equality of two    *)
(* values is equality of the records.  The weights 0.90 and 0.10 are the   *)
(* rationals 9/10 and 1/10.  ActivityEntry fields that no computation      *)
(* reads (patient_id, duration_minutes, notes) are left out of the         *)
(* entries.                                                                *)
(*                                                                         *)
(* float("nan") is a value only where a validation decides on it, in the   *)
(* activity log taken on its own (SpecLog).  Date texts are strings with   *)
(* their characters tabulated, compared as Python compares str.  The web   *)
(* application's scoring service works on the tables of its database, the  *)
(* variable db, which the engine never touches.                            *)
(***************************************************************************)
EXTENDS Integers, Sequences, FiniteSets, TLC

VARIABLES
    standards,      \* StandardsDatabase.standards : task_name -> TaskStandard
    daily_target,   \* PerformanceCalculator.daily_target
    activities,     \* ActivityLog.activities (list, insertion order)
    employees,      \* ActivityLog.employees : emp_id -> Employee
    db,             \* phase2_webapp: the tables of the database session
    op,             \* the most recent operation and its arguments
    ret             \* what the most recent operation returned or raised

vars == <<standards, daily_target, activities, employees, db, op, ret>>

----------------------------------------------------------------------------
(* Exact rational arithmetic standing for float arithmetic.                *)

Abs(x) == IF x < 0 THEN -x ELSE x

RECURSIVE GCD(_, _)
GCD(a, b) == IF b = 0 THEN a ELSE GCD(b, a % b)

\* The rational n/d (d # 0) in lowest terms with a positive denominator.
Rat(n, d) ==
    LET s == IF d < 0 THEN -1 ELSE 1
        g == GCD(Abs(n), Abs(d))
    IN  [n |-> (s * n) \div g, d |-> (s * d) \div g]

RInt(i) == [n |-> i, d |-> 1]
RAdd(a, b) == Rat(a.n * b.d + b.n * a.d, a.d * b.d)
RSub(a, b) == Rat(a.n * b.d - b.n * a.d, a.d * b.d)
RMul(a, b) == Rat(a.n * b.n, a.d * b.d)
RDiv(a, b) == Rat(a.n * b.d, a.d * b.n)
RLess(a, b) == a.n * b.d < b.n * a.d
RLeq(a, b) == a.n * b.d <= b.n * a.d

\* Python's max(a, b): b only when it is strictly greater than a.
\* float("nan"): a float that is neither less than, equal to nor greater than
\* any float.  The comparisons of floats that may be NaN:
NaN == [n |-> 0, d |-> 0]
IsNaN(x) == x.d = 0
FloatLess(a, b) == ~IsNaN(a) /\ ~IsNaN(b) /\ RLess(a, b)
FloatGeq(a, b) == ~IsNaN(a) /\ ~IsNaN(b) /\ RLeq(b, a)

PyMax(a, b) == IF RLess(a, b) THEN b ELSE a

----------------------------------------------------------------------------
(* Return values and errors.                                               *)

NoneVal == [kind |-> "None"]
Done == [kind |-> "ok"]
Raised(e) == [kind |-> e]

----------------------------------------------------------------------------
(* models/standards.py                                                     *)

TaskStandard(task_name, ec_category, base_score, target_daily) ==
    [task_name |-> task_name, ec_category |-> ec_category,
     base_score |-> base_score, target_daily |-> target_daily,
     weight |-> Rat(9, 10)]

DEFAULT_STANDARDS ==
    [t \in {"Authorization Created", "Authorization Status/FU", "Appeal",
            "Eligibility Check", "Medication Refill", "Pharmacy Call",
            "Document Upload", "Patient Outreach", "Insurance Verification",
            "Claims Processing"} |->
        CASE t = "Authorization Created"   -> [ec_category |-> "EC-1", base_score |-> 45, target_daily |-> 10]
          [] t = "Authorization Status/FU" -> [ec_category |-> "EC-1", base_score |-> 25, target_daily |-> 15]
          [] t = "Appeal"                  -> [ec_category |-> "EC-1", base_score |-> 10, target_daily |-> 5]
          [] t = "Eligibility Check"       -> [ec_category |-> "EC-2", base_score |-> 20, target_daily |-> 25]
          [] t = "Medication Refill"       -> [ec_category |-> "EC-2", base_score |-> 20, target_daily |-> 30]
          [] t = "Pharmacy Call"           -> [ec_category |-> "EC-2", base_score |-> 10, target_daily |-> 10]
          [] t = "Document Upload"         -> [ec_category |-> "EC-5", base_score |-> 10, target_daily |-> 2]
          [] t = "Patient Outreach"        -> [ec_category |-> "EC-3", base_score |-> 15, target_daily |-> 20]
          [] t = "Insurance Verification"  -> [ec_category |-> "EC-2", base_score |-> 25, target_daily |-> 15]
          [] t = "Claims Processing"       -> [ec_category |-> "EC-4", base_score |-> 30, target_daily |-> 12]]

\* StandardsDatabase.__init__: the custom mapping when it is given and not
\* empty (Python's `custom_standards or DEFAULT_STANDARDS`), else the defaults.
StandardsInit(custom_standards) ==
    LET standards_config ==
            IF custom_standards = NoneVal \/ DOMAIN custom_standards = {}
            THEN DEFAULT_STANDARDS ELSE custom_standards
    IN  [t \in DOMAIN standards_config |->
            TaskStandard(t, standards_config[t].ec_category,
                         standards_config[t].base_score,
                         standards_config[t].target_daily)]

\* TaskStandard.calculate_points
calculate_points(standard, count) == count * standard.base_score

\* StandardsDatabase.get_task_standard: dict.get, None when absent.
get_task_standard(stds, task_name) ==
    IF task_name \in DOMAIN stds THEN stds[task_name] ELSE NoneVal

\* Mutant of get_score: an unknown task earns one point per completion.
get_score_UnknownCountsOne(stds, task_name, count) ==
    IF task_name \in DOMAIN stds
    THEN RInt(count * stds[task_name].base_score)
    ELSE RInt(count)

\* StandardsDatabase.get_score
get_score(stds, task_name, count) ==
    LET standard == get_task_standard(stds, task_name)
    IN  IF standard # NoneVal
        THEN RInt(calculate_points(standard, count))
        ELSE RInt(0)

----------------------------------------------------------------------------
(* models/activity.py                                                      *)

\* The characters of the date strings the model uses (TLA+ strings cannot be
\* indexed, so each string is listed with its characters).
DateChars(s) ==
    CASE s = "2025-11-03" -> <<"2","0","2","5","-","1","1","-","0","3">>
      [] s = "2025-11-04" -> <<"2","0","2","5","-","1","1","-","0","4">>
      [] s = "2025-11-3"  -> <<"2","0","2","5","-","1","1","-","3">>
      [] s = "2025-02-30" -> <<"2","0","2","5","-","0","2","-","3","0">>
      [] s = "2025/11/03" -> <<"2","0","2","5","/","1","1","/","0","3">>
      [] s = "03-11-2025" -> <<"0","3","-","1","1","-","2","0","2","5">>
      [] s = "2025-11-01" -> <<"2","0","2","5","-","1","1","-","0","1">>
      [] s = "2025-11-30" -> <<"2","0","2","5","-","1","1","-","3","0">>

Digits == {"0", "1", "2", "3", "4", "5", "6", "7", "8", "9"}

DigitVal(ch) ==
    CASE ch = "0" -> 0 [] ch = "1" -> 1 [] ch = "2" -> 2 [] ch = "3" -> 3
      [] ch = "4" -> 4 [] ch = "5" -> 5 [] ch = "6" -> 6 [] ch = "7" -> 7
      [] ch = "8" -> 8 [] ch = "9" -> 9

\* ord(ch) for the characters of a date text.
CharOrd(ch) ==
    IF ch = "-" THEN 45 ELSE IF ch = "/" THEN 47 ELSE 48 + DigitVal(ch)

\* Python's < on str: by code point at the first difference, a proper
\* prefix being the smaller.
StrLess(a, b) ==
    LET x == DateChars(a)
        y == DateChars(b)
    IN  \E k \in 1..(Len(y)) :
            /\ \A i \in 1..(k - 1) : i <= Len(x) /\ x[i] = y[i]
            /\ \/ k = Len(x) + 1
               \/ k <= Len(x) /\ CharOrd(x[k]) < CharOrd(y[k])

StrLeq(a, b) == a = b \/ StrLess(a, b)

\* A month or day field as the format's pattern reads it: one digit 1-9, or
\* two digits (a leading zero allowed) of value lo..hi; 0 when it does not match.
FieldVal(f, hi) ==
    IF Len(f) = 1 /\ f[1] \in Digits \ {"0"} THEN DigitVal(f[1])
    ELSE IF Len(f) = 2 /\ f[1] \in Digits /\ f[2] \in Digits
              /\ 10 * DigitVal(f[1]) + DigitVal(f[2]) \in 1..hi
         THEN 10 * DigitVal(f[1]) + DigitVal(f[2])
         ELSE 0

IsLeap(y) == (y % 4 = 0 /\ y % 100 # 0) \/ y % 400 = 0

DaysInMonth(y, m) ==
    IF m = 2 THEN (IF IsLeap(y) THEN 29 ELSE 28)
    ELSE IF m \in {4, 6, 9, 11} THEN 30 ELSE 31

\* datetime.strptime(s, "%Y-%m-%d"): the calendar date [y, m, d], or
\* ValueError when the text does not match the format or names no day.
Strptime(s) ==
    LET c == DateChars(s)
        n == Len(c)
        \* the second "-" follows a month field of one or of two characters
        dash2 == IF n >= 7 /\ c[7] = "-" THEN 7
                 ELSE IF n >= 8 /\ c[8] = "-" THEN 8 ELSE 0
        headOk == /\ n >= 5
                  /\ \A i \in 1..4 : c[i] \in Digits
                  /\ c[5] = "-"
                  /\ dash2 # 0
        y == 1000 * DigitVal(c[1]) + 100 * DigitVal(c[2])
                + 10 * DigitVal(c[3]) + DigitVal(c[4])
        m == FieldVal(SubSeq(c, 6, dash2 - 1), 12)
        d == FieldVal(SubSeq(c, dash2 + 1, n), 31)
    IN  IF headOk /\ y >= 1 /\ m # 0 /\ d # 0 /\ d <= DaysInMonth(y, m)
        THEN [kind |-> "date", y |-> y, m |-> m, d |-> d]
        ELSE Raised("ValueError")

\* Mutant of ActivityEntryPostInit: the idle-hours check is missing.
ActivityEntryPostInit_NoIdleCheck(e) ==
    IF Strptime(e.date) = Raised("ValueError") THEN Raised("ValueError")
    ELSE IF e.count < 0 THEN Raised("ValueError")
    ELSE IF e.conduct_flag \notin {0, 1} THEN Raised("ValueError")
    ELSE Done

\* ActivityEntry.__post_init__: "ok", or the ValueError the first failing
\* check raises.
ActivityEntryPostInit(e) ==
    IF Strptime(e.date) = Raised("ValueError") THEN Raised("ValueError")
    ELSE IF e.count < 0 THEN Raised("ValueError")
    ELSE IF e.conduct_flag \notin {0, 1} THEN Raised("ValueError")
    ELSE IF FloatLess(e.idle_hours, RInt(0)) THEN Raised("ValueError")
    ELSE Done

ActivityEntry(date, emp_id, task_name, count, idle_hours, conduct_flag) ==
    [date |-> date, emp_id |-> emp_id, task_name |-> task_name,
     count |-> count, idle_hours |-> idle_hours, conduct_flag |-> conduct_flag]

Employee(emp_id, name) == [emp_id |-> emp_id, name |-> name]

\* dict.get(emp_id) on ActivityLog.employees
EmployeeGet(emps, emp_id) ==
    IF emp_id \in DOMAIN emps THEN emps[emp_id] ELSE NoneVal

----------------------------------------------------------------------------
(* engine/calculator.py                                                    *)

PRODUCTIVITY_WEIGHT == Rat(9, 10)
BEHAVIOR_WEIGHT == Rat(1, 10)
DEFAULT_DAILY_TARGET == 400
IDLE_PENALTY_PER_HOUR == 10
CONDUCT_PENALTY == 50

\* PerformanceCalculator.__init__: `daily_target_points or DEFAULT_DAILY_TARGET`
\* (given = FALSE stands for the omitted argument, None).
PerformanceCalculatorInit(given, daily_target_points) ==
    IF given /\ daily_target_points # 0
    THEN daily_target_points ELSE DEFAULT_DAILY_TARGET

\* Mutant of TaskPointsStep: a repeated task name overwrites its count.
TaskPointsStep_Overwrite(stds, acc, a) ==
    [total_points |-> RAdd(acc.total_points, get_score(stds, a.task_name, a.count)),
     task_breakdown |->
        [t \in DOMAIN acc.task_breakdown \cup {a.task_name} |->
            IF t = a.task_name THEN a.count ELSE acc.task_breakdown[t]]]

\* One pass of the loop of calculate_task_points over activity a.
TaskPointsStep(stds, acc, a) ==
    LET points == get_score(stds, a.task_name, a.count)
    IN  [total_points |-> RAdd(acc.total_points, points),
         task_breakdown |->
            IF a.task_name \in DOMAIN acc.task_breakdown
            THEN [acc.task_breakdown EXCEPT ![a.task_name] = @ + a.count]
            ELSE acc.task_breakdown @@ (a.task_name :> a.count)]

\* PerformanceCalculator.calculate_task_points
RECURSIVE calculate_task_points(_, _)
calculate_task_points(stds, acts) ==
    IF acts = <<>>
    THEN [total_points |-> RInt(0), task_breakdown |-> [t \in {} |-> 0]]
    ELSE TaskPointsStep(stds,
                        calculate_task_points(stds, SubSeq(acts, 1, Len(acts) - 1)),
                        acts[Len(acts)])

\* PerformanceCalculator.calculate_productivity_score (target # 0; the
\* caller raises ZeroDivisionError otherwise)
calculate_productivity_score(total_points, target) ==
    LET productivity_pct == RMul(RDiv(total_points, RInt(target)), RInt(100))
        weighted_score == RMul(productivity_pct, PRODUCTIVITY_WEIGHT)
    IN  [productivity_pct |-> productivity_pct, weighted_score |-> weighted_score]

\* Mutant of calculate_behavior_score: the floor at 0 is missing.
calculate_behavior_score_NoFloor(idle_hours, conduct_flag) ==
    LET b1 == RSub(RInt(100), RMul(idle_hours, RInt(IDLE_PENALTY_PER_HOUR)))
        b2 == RSub(b1, RInt(conduct_flag * CONDUCT_PENALTY))
    IN  [base_score |-> b2, weighted_score |-> RMul(b2, BEHAVIOR_WEIGHT)]

\* PerformanceCalculator.calculate_behavior_score
calculate_behavior_score(idle_hours, conduct_flag) ==
    LET b0 == RInt(100)
        b1 == RSub(b0, RMul(idle_hours, RInt(IDLE_PENALTY_PER_HOUR)))
        b2 == RSub(b1, RInt(conduct_flag * CONDUCT_PENALTY))
        base_score == PyMax(b2, RInt(0))
        weighted_score == RMul(base_score, BEHAVIOR_WEIGHT)
    IN  [base_score |-> base_score, weighted_score |-> weighted_score]

\* Mutant of MaxIdleHours: the last entry's value.
MaxIdleHours_Last(acts) == acts[Len(acts)].idle_hours

\* Mutant of MaxIdleHours: the sum over the entries.
RECURSIVE MaxIdleHours_Sum(_)
MaxIdleHours_Sum(acts) ==
    IF Len(acts) = 1 THEN acts[1].idle_hours
    ELSE RAdd(MaxIdleHours_Sum(SubSeq(acts, 1, Len(acts) - 1)),
              acts[Len(acts)].idle_hours)

\* max(a.idle_hours for a in activities), activities not empty
RECURSIVE MaxIdleHours(_)
MaxIdleHours(acts) ==
    IF Len(acts) = 1 THEN acts[1].idle_hours
    ELSE PyMax(MaxIdleHours(SubSeq(acts, 1, Len(acts) - 1)),
               acts[Len(acts)].idle_hours)

\* max(a.conduct_flag for a in activities), activities not empty
RECURSIVE MaxConductFlag(_)
MaxConductFlag(acts) ==
    IF Len(acts) = 1 THEN acts[1].conduct_flag
    ELSE LET m == MaxConductFlag(SubSeq(acts, 1, Len(acts) - 1))
             x == acts[Len(acts)].conduct_flag
         IN  IF x > m THEN x ELSE m

\* Mutant of MatchingActivities: the date is not compared.
MatchingActivities_AnyDate(log, emp_id, target_date) ==
    SelectSeq(log, LAMBDA a : a.emp_id = emp_id)

\* [a for a in activity_log.activities if a.emp_id == emp_id and a.date == target_date]
MatchingActivities(log, emp_id, target_date) ==
    SelectSeq(log, LAMBDA a : a.emp_id = emp_id /\ a.date = target_date)

\* Mutant of FinalPerformance: the behaviour weight is applied a second time.
FinalPerformance_WeightTwice(weighted_prod, weighted_behavior) ==
    RAdd(weighted_prod, RMul(weighted_behavior, BEHAVIOR_WEIGHT))

\* final_performance = weighted_prod + weighted_behavior
FinalPerformance(weighted_prod, weighted_behavior) ==
    RAdd(weighted_prod, weighted_behavior)

\* PerformanceCalculator.calculate_employee_performance
calculate_employee_performance(stds, target, log, emps, emp_id, target_date) ==
    LET acts == MatchingActivities(log, emp_id, target_date)
        employee == EmployeeGet(emps, emp_id)
        emp_name == IF employee # NoneVal THEN employee.name ELSE "Unknown"
        tp == calculate_task_points(stds, acts)
        prod == calculate_productivity_score(tp.total_points, target)
        idle_hours == MaxIdleHours(acts)
        conduct_flag == MaxConductFlag(acts)
        beh == calculate_behavior_score(idle_hours, conduct_flag)
        final_performance == FinalPerformance(prod.weighted_score, beh.weighted_score)
    IN  IF acts = <<>> THEN NoneVal
        ELSE IF target = 0 THEN Raised("ZeroDivisionError")
        ELSE [kind |-> "PerformanceScore",
              emp_id |-> emp_id,
              name |-> emp_name,
              date |-> target_date,
              total_task_points |-> tp.total_points,
              productivity_percentage |-> prod.productivity_pct,
              weighted_prod_score |-> prod.weighted_score,
              behavior_score_raw |-> beh.base_score,
              weighted_behavior_score |-> beh.weighted_score,
              final_performance |-> final_performance,
              task_breakdown |-> tp.task_breakdown,
              idle_hours |-> idle_hours,
              conduct_flag |-> conduct_flag]

\* The orders in which a Python set with the elements of S may be iterated:
\* the order depends on the strings' hashes, which differ from run to run.
SetOrders(S) ==
    { p \in [1..Cardinality(S) -> S] : \A x \in S : \E i \in DOMAIN p : p[i] = x }

\* Mutant of SortByFinalDesc: reverse=True is missing, the sort ascends.
RECURSIVE SortByFinalDesc_Ascending(_)
SortByFinalDesc_Ascending(scores) ==
    IF scores = <<>> THEN <<>>
    ELSE LET rest == SortByFinalDesc_Ascending(SubSeq(scores, 1, Len(scores) - 1))
             x == scores[Len(scores)]
             k == Cardinality({ i \in DOMAIN rest :
                        RLeq(rest[i].final_performance, x.final_performance) })
         IN  SubSeq(rest, 1, k) \o <<x>> \o SubSeq(rest, k + 1, Len(rest))

\* scores.sort(key=lambda x: x.final_performance, reverse=True): a stable
\* sort, scores of equal final_performance keep the order they had.
RECURSIVE SortByFinalDesc(_)
SortByFinalDesc(scores) ==
    IF scores = <<>> THEN <<>>
    ELSE LET rest == SortByFinalDesc(SubSeq(scores, 1, Len(scores) - 1))
             x == scores[Len(scores)]
             k == Cardinality({ i \in DOMAIN rest :
                        RLeq(x.final_performance, rest[i].final_performance) })
         IN  SubSeq(rest, 1, k) \o <<x>> \o SubSeq(rest, k + 1, Len(rest))

\* set(a.emp_id for a in activity_log.activities if a.date == target_date)
EmpIdsOn(log, target_date) ==
    { log[i].emp_id : i \in { j \in DOMAIN log : log[j].date = target_date } }

\* PerformanceCalculator.calculate_all_employees; order is the order in which
\* the loop meets the set of employee ids.
calculate_all_employees(stds, target, log, emps, target_date, order) ==
    LET results == [i \in DOMAIN order |->
                        calculate_employee_performance(stds, target, log, emps,
                                                       order[i], target_date)]
        scores == SelectSeq(results, LAMBDA r : r # NoneVal)
    IN  IF \E i \in DOMAIN results : results[i] = Raised("ZeroDivisionError")
        THEN Raised("ZeroDivisionError")
        ELSE [kind |-> "list", value |-> SortByFinalDesc(scores)]

\* sorted(dates) for a set of date texts.
RECURSIVE SortedDates(_)
SortedDates(dates) ==
    IF dates = {} THEN <<>>
    ELSE LET least == CHOOSE d \in dates : \A e \in dates : StrLeq(d, e)
         IN  <<least>> \o SortedDates(dates \ {least})

\* round(x, 2), ties to the even hundredth.
Round2(x) ==
    LET q == x.n * 100
        fl == q \div x.d
        twice == 2 * (q - fl * x.d)
        k == IF twice < x.d THEN fl
             ELSE IF twice > x.d THEN fl + 1
             ELSE IF fl % 2 = 0 THEN fl ELSE fl + 1
    IN  Rat(k, 100)

\* PerformanceScore.to_dict
to_dict(score) ==
    [Emp_ID |-> score.emp_id,
     Name |-> score.name,
     Date |-> score.date,
     Total_Task_Points |-> score.total_task_points,
     Productivity_Pct |-> Round2(score.productivity_percentage),
     Weighted_Prod_Score |-> Round2(score.weighted_prod_score),
     Behavior_Score_Raw |-> Round2(score.behavior_score_raw),
     Weighted_Behavior_Score |-> Round2(score.weighted_behavior_score),
     Final_Performance_Pct |-> Round2(score.final_performance),
     Idle_Hours |-> score.idle_hours,
     Conduct_Flag |-> score.conduct_flag]

\* The dates get_employee_trend visits: a set, so each date text once.
TrendDates(log, emp_id, start_date, end_date) ==
    { log[i].date : i \in { j \in DOMAIN log :
        /\ log[j].emp_id = emp_id
        /\ StrLeq(start_date, log[j].date)
        /\ StrLeq(log[j].date, end_date) } }

\* PerformanceCalculator.get_employee_trend: the rows of the DataFrame.
get_employee_trend(stds, target, log, emps, emp_id, start_date, end_date) ==
    LET dates == SortedDates(TrendDates(log, emp_id, start_date, end_date))
        results == [i \in DOMAIN dates |->
                        calculate_employee_performance(stds, target, log, emps,
                                                       emp_id, dates[i])]
        scores == SelectSeq(results, LAMBDA r : r # NoneVal)
    IN  IF \E i \in DOMAIN results : results[i] = Raised("ZeroDivisionError")
        THEN Raised("ZeroDivisionError")
        ELSE [kind |-> "DataFrame",
              value |-> [i \in DOMAIN scores |-> to_dict(scores[i])]]

\* The dates calculate_date_range visits.
RangeDates(log, start_date, end_date) ==
    { log[i].date : i \in { j \in DOMAIN log :
        /\ StrLeq(start_date, log[j].date)
        /\ StrLeq(log[j].date, end_date) } }

\* PerformanceCalculator.calculate_date_range: the dict, as its keys in
\* insertion order and the value of each key; orders[d] is the order in which
\* the call for date d meets its set of employee ids.
calculate_date_range(stds, target, log, emps, start_date, end_date, orders) ==
    LET dates == RangeDates(log, start_date, end_date)
        results == [d \in dates |->
                        calculate_all_employees(stds, target, log, emps, d,
                                                orders[d])]
    IN  IF \E d \in dates : results[d] = Raised("ZeroDivisionError")
        THEN Raised("ZeroDivisionError")
        ELSE [kind |-> "dict",
              keys |-> SortedDates(dates),
              value |-> [d \in dates |-> results[d].value]]

----------------------------------------------------------------------------
(* phase2_webapp: the database tables the scoring service reads and writes,
   and PerformanceCalculatorService.  A date is a datetime.date, written
   here as the number YYYYMMDD.                                            *)

\* core/config.py Settings
DAILY_TARGET_POINTS == 400
settings_PRODUCTIVITY_WEIGHT == Rat(90, 100)
settings_BEHAVIOR_WEIGHT == Rat(10, 100)
settings_IDLE_PENALTY_PER_HOUR == 10
settings_CONDUCT_PENALTY == 50

\* The tables before any row is added.
EmptyDb ==
    [users |-> {},
     task_standards |-> [t \in {} |-> NoneVal],
     activities |-> <<>>,
     daily_metrics |-> <<>>,
     performance_scores |-> [k \in {} |-> NoneVal]]

\* models.Activity, models.DailyMetric and models.TaskStandard rows
ActivityRow(date, emp_id, task_id, count) ==
    [date |-> date, emp_id |-> emp_id, task_id |-> task_id, count |-> count]

DailyMetricRow(date, emp_id, idle_hours, conduct_flag) ==
    [date |-> date, emp_id |-> emp_id,
     idle_hours |-> idle_hours, conduct_flag |-> conduct_flag]

TaskStandardRow(task_id, task_name, base_score) ==
    [task_id |-> task_id, task_name |-> task_name, base_score |-> base_score]

\* f"SCR_{emp_id}_{target_date.strftime('%Y%m%d')}"
ScoreId(emp_id, target_date) == <<"SCR", emp_id, target_date>>

\* Mutant of WebActivities: the filter on the date is missing.
WebActivities_AnyDate(d, emp_id, target_date) ==
    SelectSeq(d.activities, LAMBDA a : a.emp_id = emp_id)

\* db.query(Activity).filter(emp_id, date).all()
WebActivities(d, emp_id, target_date) ==
    SelectSeq(d.activities,
              LAMBDA a : a.emp_id = emp_id /\ a.date = target_date)

\* The positions of the DailyMetric rows of an employee and a date; .first()
\* returns one of them, the query giving no order, or None when there is none.
WebMetricRows(d, emp_id, target_date) ==
    { i \in DOMAIN d.daily_metrics :
        /\ d.daily_metrics[i].emp_id = emp_id
        /\ d.daily_metrics[i].date = target_date }

\* Mutant of WebTotalPoints: every activity earns its count, whatever the
\* base score of its task.
RECURSIVE WebTotalPoints_CountsOnly(_, _)
WebTotalPoints_CountsOnly(d, acts) ==
    IF acts = <<>> THEN 0
    ELSE WebTotalPoints_CountsOnly(d, SubSeq(acts, 1, Len(acts) - 1))
            + acts[Len(acts)].count

\* The loop over the activities: count * base_score of each activity whose
\* task_id has a TaskStandard row.
RECURSIVE WebTotalPoints(_, _)
WebTotalPoints(d, acts) ==
    IF acts = <<>> THEN 0
    ELSE LET activity == acts[Len(acts)]
             rest == WebTotalPoints(d, SubSeq(acts, 1, Len(acts) - 1))
         IN  IF activity.task_id \in DOMAIN d.task_standards
             THEN rest + activity.count * d.task_standards[activity.task_id].base_score
             ELSE rest

\* The score calculate_for_employee computes, before it is stored; metric is
\* the DailyMetric row .first() returned, or None.
WebScore(d, emp_id, target_date, metric) ==
    LET acts == WebActivities(d, emp_id, target_date)
        total_points == RInt(WebTotalPoints(d, acts))
        idle_hours == IF metric # NoneVal THEN metric.idle_hours ELSE RInt(0)
        conduct_flag == IF metric # NoneVal THEN metric.conduct_flag ELSE 0
        productivity_percent ==
            RMul(RDiv(total_points, RInt(DAILY_TARGET_POINTS)), RInt(100))
        weighted_prod_score == RMul(productivity_percent, settings_PRODUCTIVITY_WEIGHT)
        raw == RSub(RSub(RInt(100),
                         RMul(idle_hours, RInt(settings_IDLE_PENALTY_PER_HOUR))),
                    RInt(conduct_flag * settings_CONDUCT_PENALTY))
        behavior_score_raw == PyMax(raw, RInt(0))
        weighted_behavior_score == RMul(behavior_score_raw, settings_BEHAVIOR_WEIGHT)
    IN  [kind |-> "PerformanceScoreRow",
         score_id |-> ScoreId(emp_id, target_date),
         date |-> target_date,
         emp_id |-> emp_id,
         total_task_points |-> total_points,
         productivity_percent |-> productivity_percent,
         weighted_prod_score |-> weighted_prod_score,
         behavior_score_raw |-> behavior_score_raw,
         weighted_behavior_score |-> weighted_behavior_score,
         final_performance_percent |->
            RAdd(weighted_prod_score, weighted_behavior_score),
         task_count |-> Len(acts),
         idle_hours |-> idle_hours,
         conduct_flag |-> conduct_flag]

\* What .first() may return for the DailyMetric query.
FirstMetric(d, emp_id, target_date) ==
    IF WebMetricRows(d, emp_id, target_date) = {} THEN {NoneVal}
    ELSE { d.daily_metrics[i] : i \in WebMetricRows(d, emp_id, target_date) }

\* Mutant of UpsertScore: a row that exists is kept as it is.
UpsertScore_KeepExisting(d, score) ==
    IF score.score_id \in DOMAIN d.performance_scores THEN d
    ELSE [d EXCEPT !.performance_scores =
            [k \in DOMAIN @ \cup {score.score_id} |->
                IF k = score.score_id THEN score ELSE @[k]]]

\* The PerformanceScore row after the update-or-create and the commit.
UpsertScore(d, score) ==
    IF score.score_id \in DOMAIN d.performance_scores
    THEN [d EXCEPT !.performance_scores[score.score_id] =
            [@ EXCEPT !.total_task_points = score.total_task_points,
                      !.productivity_percent = score.productivity_percent,
                      !.weighted_prod_score = score.weighted_prod_score,
                      !.behavior_score_raw = score.behavior_score_raw,
                      !.weighted_behavior_score = score.weighted_behavior_score,
                      !.final_performance_percent = score.final_performance_percent,
                      !.task_count = score.task_count,
                      !.idle_hours = score.idle_hours,
                      !.conduct_flag = score.conduct_flag]]
    ELSE [d EXCEPT !.performance_scores =
            [k \in DOMAIN @ \cup {score.score_id} |->
                IF k = score.score_id THEN score ELSE @[k]]]

\* PerformanceCalculatorService.calculate_for_employee: what it returns and
\* the tables it leaves.
calculate_for_employee(d, emp_id, target_date, metric) ==
    IF emp_id \notin d.users THEN [ret |-> NoneVal, db |-> d]
    ELSE IF WebActivities(d, emp_id, target_date) = <<>>
    THEN [ret |-> NoneVal, db |-> d]
    ELSE LET after == UpsertScore(d, WebScore(d, emp_id, target_date, metric))
         IN  [ret |-> after.performance_scores[ScoreId(emp_id, target_date)],
              db |-> after]

\* db.query(Activity.emp_id).filter(Activity.date == target_date).distinct()
WebEmpIdsOn(d, target_date) ==
    { d.activities[i].emp_id :
        i \in { j \in DOMAIN d.activities : d.activities[j].date = target_date } }

\* PerformanceCalculatorService.calculate_for_all_employees; order is the
\* order of the rows of the emp_id query, metrics[e] the DailyMetric row
\* .first() returns for employee e.
RECURSIVE calculate_for_all_employees(_, _, _, _)
calculate_for_all_employees(d, target_date, order, metrics) ==
    IF order = <<>> THEN [ret |-> <<>>, db |-> d]
    ELSE LET before == calculate_for_all_employees(
                            d, target_date, SubSeq(order, 1, Len(order) - 1),
                            metrics)
             emp_id == order[Len(order)]
             one == calculate_for_employee(before.db, emp_id, target_date,
                                           metrics[emp_id])
         IN  [ret |-> IF one.ret # NoneVal THEN Append(before.ret, one.ret)
                      ELSE before.ret,
              db |-> one.db]

\* sum(values) / len(values)
RECURSIVE RSum(_)
RSum(values) ==
    IF values = <<>> THEN RInt(0)
    ELSE RAdd(RSum(SubSeq(values, 1, Len(values) - 1)), values[Len(values)])

Average(values) == RDiv(RSum(values), RInt(Len(values)))

\* max(values) and min(values) of a non-empty list
MaxOf(values) ==
    CHOOSE x \in { values[i] : i \in DOMAIN values } :
        \A i \in DOMAIN values : RLeq(values[i], x)

MinOf(values) ==
    CHOOSE x \in { values[i] : i \in DOMAIN values } :
        \A i \in DOMAIN values : RLeq(x, values[i])

\* Mutant of SortedByPercentDesc: the rows stay in the order of the query.
SortedByPercentDesc_Unsorted(scores) == scores

\* sorted(scores, key=lambda x: x.final_performance_percent, reverse=True)
RECURSIVE SortedByPercentDesc(_)
SortedByPercentDesc(scores) ==
    IF scores = <<>> THEN <<>>
    ELSE LET rest == SortedByPercentDesc(SubSeq(scores, 1, Len(scores) - 1))
             x == scores[Len(scores)]
             k == Cardinality({ i \in DOMAIN rest :
                        RLeq(x.final_performance_percent,
                             rest[i].final_performance_percent) })
         IN  SubSeq(rest, 1, k) \o <<x>> \o SubSeq(rest, k + 1, Len(rest))

\* PerformanceCalculatorService.get_statistics; scores is the list the
\* query returned.
get_statistics(scores, target_date) ==
    IF scores = <<>>
    THEN [kind |-> "dict", date |-> target_date, count |-> 0,
          avg_performance |-> RInt(0), avg_productivity |-> RInt(0),
          avg_behavior |-> RInt(0),
          top_performer |-> NoneVal, needs_improvement |-> NoneVal]
    ELSE LET performances == [i \in DOMAIN scores |->
                                scores[i].final_performance_percent]
             productivities == [i \in DOMAIN scores |->
                                scores[i].weighted_prod_score]
             behaviors == [i \in DOMAIN scores |->
                                scores[i].weighted_behavior_score]
             sorted_scores == SortedByPercentDesc(scores)
         IN  [kind |-> "dict", date |-> target_date, count |-> Len(scores),
              avg_performance |-> Average(performances),
              avg_productivity |-> Average(productivities),
              avg_behavior |-> Average(behaviors),
              max_performance |-> MaxOf(performances),
              min_performance |-> MinOf(performances),
              top_performer |->
                [emp_id |-> sorted_scores[1].emp_id,
                 performance |-> sorted_scores[1].final_performance_percent],
              needs_improvement |->
                [emp_id |-> sorted_scores[Len(scores)].emp_id,
                 performance |->
                    sorted_scores[Len(scores)].final_performance_percent]]

\* PerformanceCalculator.get_productivity_statistics for a non-empty list
ProductivityStatistics(scores) ==
    LET performances == [i \in DOMAIN scores |-> scores[i].final_performance]
        productivities == [i \in DOMAIN scores |-> scores[i].weighted_prod_score]
        behaviors == [i \in DOMAIN scores |-> scores[i].weighted_behavior_score]
    IN  [kind |-> "dict", count |-> Len(scores),
         avg_performance |-> Average(performances),
         avg_productivity |-> Average(productivities),
         avg_behavior |-> Average(behaviors),
         top_performer |-> scores[1].name,
         needs_improvement |-> scores[Len(scores)].name]

\* Mutant of get_productivity_statistics: the empty list is not set apart,
\* sum(performances) / len(performances) divides by zero.
get_productivity_statistics_NoEmptyCheck(scores) ==
    IF scores = <<>> THEN Raised("ZeroDivisionError")
    ELSE ProductivityStatistics(scores)

\* PerformanceCalculator.get_productivity_statistics
get_productivity_statistics(scores) ==
    IF scores = <<>>
    THEN [kind |-> "dict", count |-> 0,
          avg_performance |-> RInt(0), avg_productivity |-> RInt(0),
          avg_behavior |-> RInt(0),
          top_performer |-> NoneVal, needs_improvement |-> NoneVal]
    ELSE ProductivityStatistics(scores)

\* "{x:.1f}": x to one decimal, ties to the even tenth.
Round1(x) ==
    LET q == x.n * 10
        fl == q \div x.d
        twice == 2 * (q - fl * x.d)
        k == IF twice < x.d THEN fl
             ELSE IF twice > x.d THEN fl + 1
             ELSE IF fl % 2 = 0 THEN fl ELSE fl + 1
    IN  Rat(k, 10)

\* The three conditions of the performance distribution.
IsExcellent(s) == RLeq(RInt(90), s.final_performance)

\* Mutant of IsGood: a score of exactly 70 is left out.
IsGood_Above70(s) ==
    RLess(RInt(70), s.final_performance) /\ RLess(s.final_performance, RInt(90))

IsGood(s) ==
    RLeq(RInt(70), s.final_performance) /\ RLess(s.final_performance, RInt(90))

IsNeedsImprovement(s) == RLess(s.final_performance, RInt(70))

\* count/len(scores)*100
PercentOf(count, scores) == RMul(Rat(count, Len(scores)), RInt(100))

\* PerformanceReporter.generate_statistics_report: the text, as the items
\* of its PERFORMANCE SCORES and PERFORMANCE DISTRIBUTION blocks;
\* "{x:.2f}" is x to two decimals.
generate_statistics_report(scores) ==
    IF scores = <<>>
    THEN [kind |-> "str", text |-> "No data available for statistics."]
    ELSE LET performances == [i \in DOMAIN scores |-> scores[i].final_performance]
             excellent == Len(SelectSeq(scores, IsExcellent))
             good == Len(SelectSeq(scores, IsGood))
             needs_improvement == Len(SelectSeq(scores, IsNeedsImprovement))
         IN  [kind |-> "str",
              total_employees |-> Len(scores),
              average |-> Round2(Average(performances)),
              highest |-> Round2(MaxOf(performances)),
              highest_name |-> scores[1].name,
              lowest |-> Round2(MinOf(performances)),
              lowest_name |-> scores[Len(scores)].name,
              excellent |-> excellent,
              excellent_pct |-> Round1(PercentOf(excellent, scores)),
              good |-> good,
              good_pct |-> Round1(PercentOf(good, scores)),
              needs_improvement |-> needs_improvement,
              needs_improvement_pct |->
                    Round1(PercentOf(needs_improvement, scores))]

\* Mutant of HighIdle: two hours of idle time already count as high.
HighIdle_AtTwo(score) == RLeq(RInt(2), score.idle_hours)

\* score.idle_hours > 2.0
HighIdle(score) == RLess(RInt(2), score.idle_hours)

\* The issues generate_alert_report collects for one score, in the order
\* of its four tests; "{x:.2f}" and "{x:.1f}" are x to two and to one decimal.
AlertIssues(score, performance_threshold, behavior_threshold) ==
    (IF RLess(score.final_performance, performance_threshold)
     THEN << [issue |-> "Low performance",
              value |-> Round2(score.final_performance)] >>
     ELSE <<>>)
    \o (IF RLess(score.weighted_behavior_score, behavior_threshold)
        THEN << [issue |-> "Behavior issues",
                 value |-> Round2(score.weighted_behavior_score)] >>
        ELSE <<>>)
    \o (IF HighIdle(score)
        THEN << [issue |-> "High idle time",
                 value |-> Round1(score.idle_hours)] >>
        ELSE <<>>)
    \o (IF score.conduct_flag # 0
        THEN << [issue |-> "Conduct flag raised", value |-> NoneVal] >>
        ELSE <<>>)

\* The alerts list of generate_alert_report
RECURSIVE Alerts(_, _, _)
Alerts(scores, performance_threshold, behavior_threshold) ==
    IF scores = <<>> THEN <<>>
    ELSE LET score == scores[Len(scores)]
             issues == AlertIssues(score, performance_threshold,
                                   behavior_threshold)
             before == Alerts(SubSeq(scores, 1, Len(scores) - 1),
                              performance_threshold, behavior_threshold)
         IN  IF issues # <<>>
             THEN Append(before, [employee |-> score.name,
                                  emp_id |-> score.emp_id,
                                  date |-> score.date,
                                  issues |-> issues])
             ELSE before

\* PerformanceReporter.generate_alert_report: the text, as its alert blocks
\* and its total.
generate_alert_report(scores, performance_threshold, behavior_threshold) ==
    LET alerts == Alerts(scores, performance_threshold, behavior_threshold)
    IN  IF alerts = <<>>
        THEN [kind |-> "str",
              text |-> "No alerts - All employees meeting standards."]
        ELSE [kind |-> "str", alerts |-> alerts, total_alerts |-> Len(alerts)]

\* An Optional[str] argument that is given: None is NoneVal.
Str(s) == [kind |-> "str", value |-> s]

\* ActivityLog.get_employee_activities; an absent bound is None, which
\* "if start_date:" and "if end_date:" skip.
get_employee_activities(log, emp_id, start_date, end_date) ==
    LET filtered == SelectSeq(log, LAMBDA a : a.emp_id = emp_id)
        from == IF start_date # NoneVal
                THEN SelectSeq(filtered,
                               LAMBDA a : StrLeq(start_date.value, a.date))
                ELSE filtered
    IN  IF end_date # NoneVal
        THEN SelectSeq(from, LAMBDA a : StrLeq(a.date, end_date.value))
        ELSE from

----------------------------------------------------------------------------
(* Bounds and inputs.                                                      *)

MaxLog == 2     \* entries the activity log may hold

EmpIds == {"EMP001", "EMP002"}
LogDates == {"2025-11-03", "2025-11-04"}
Half == Rat(1, 2)

\* What an entry may carry besides employee and date: task, count, idle
\* hours, conduct flag.  "Prior Auth Review" is not in the default registry.
Payloads ==
    { <<"Authorization Created", 8, Half, 0>>,
      <<"Appeal", 2, Half, 0>>,
      <<"Prior Auth Review", 3, RInt(12), 0>>,
      <<"Appeal", 0, RInt(3), 1>> }

\* Constructor arguments that __post_init__ must refuse.
BadEntries ==
    { ActivityEntry("2025/11/03", "EMP001", "Appeal", 2, Half, 0),
      ActivityEntry("2025-02-30", "EMP001", "Appeal", 2, Half, 0),
      ActivityEntry("2025-11-03", "EMP001", "Appeal", -1, Half, 0),
      ActivityEntry("2025-11-03", "EMP001", "Appeal", 2, Rat(-1, 1), 0),
      ActivityEntry("2025-11-03", "EMP001", "Appeal", 2, Half, 2) }

EntryInputs ==
    { ActivityEntry(d, e, p[1], p[2], p[3], p[4]) :
        d \in LogDates, e \in EmpIds, p \in Payloads } \cup BadEntries

EmployeeInputs == { Employee("EMP001", "Alice Smith") }
TargetInputs == {-5, 0, 200}
CustomTaskInputs == { <<"Prior Auth Review", "EC-3", 5, 4>> }

MaxIdleQuarters == 48   \* idle hours passed to calculate_behavior_score, in quarters of an hour
MaxCount == 8           \* counts passed to get_score

\* Arguments of direct calls of calculate_behavior_score; the method itself
\* checks nothing, so values no valid entry carries are among them.
IdleInputs == { Rat(k, 4) : k \in -4..MaxIdleQuarters }
FlagInputs == {0, 1, 2}

\* Registry contents and arguments for the registry's own operations.
CustomStandards ==
    [t \in {"Chart Review", "Audit"} |->
        IF t = "Chart Review"
        THEN [ec_category |-> "EC-3", base_score |-> 7, target_daily |-> 6]
        ELSE [ec_category |-> "EC-4", base_score |-> 0, target_daily |-> 1]]
\* The argument of StandardsDatabase(...): absent, a mapping of two tasks,
\* the empty mapping.
EmptyStandards == [t \in {} |-> NoneVal]
CustomStandardsInputs == <<NoneVal, CustomStandards, EmptyStandards>>
RegistryTaskInputs ==
    { <<"Prior Auth Review", "EC-3", 5, 4>>, <<"Appeal", "EC-1", 12, 5>>,
      <<"Appeal", "EC-2", 0, 5>> }
ScoreTasks == {"Authorization Created", "Appeal", "Prior Auth Review",
               "Chart Review", "Audit", "Fax Triage"}

\* Inputs of the aggregation operations.  "2025-11-3" is a date text that
\* __post_init__ accepts although it is not zero-padded.
AggDates == {"2025-11-03", "2025-11-04", "2025-11-3"}
AggPayloads == { <<"Authorization Created", 8, Half, 0>>,
                 <<"Appeal", 2, RInt(3), 1>> }
AggEntryInputs ==
    { ActivityEntry(d, e, p[1], p[2], p[3], p[4]) :
        d \in AggDates, e \in EmpIds, p \in AggPayloads }

\* The date ranges asked for: the month, two days, one day.
RangeInputs == { <<"2025-11-01", "2025-11-30">>,
                 <<"2025-11-03", "2025-11-04">>,
                 <<"2025-11-04", "2025-11-04">> }

\* Inputs of the web service: two days, one activity and one daily metric
\* per employee and day to choose from, and the task standards table.
WebDates == {20251103, 20251104}
MaxActivityRows == 2
MaxMetricRows == 1
WebTaskStandards ==
    [t \in {"TS001", "TS003"} |->
        IF t = "TS001" THEN TaskStandardRow("TS001", "Authorization Created", 45)
        ELSE TaskStandardRow("TS003", "Appeal", 10)]
ActivityRowInputs ==
    { ActivityRow(d, "EMP001", "TS001", 8) : d \in WebDates }
    \cup { ActivityRow(d, "EMP002", "TS003", 2) : d \in WebDates }
    \cup { ActivityRow(20251103, "EMP001", "TS003", 2) }
DailyMetricRowInputs ==
    { DailyMetricRow(20251103, e, m[1], m[2]) :
        e \in EmpIds, m \in {<<Half, 0>>, <<RInt(3), 1>>} }

\* Inputs of the web service when activities are also changed and deleted:
\* the request of update_activity (a new count) and the daily metric of one
\* employee.
UpdateInputs == << [count |-> 3] >>
EditMetricRowInputs == { DailyMetricRow(20251103, "EMP001", Half, 0) }

\* Inputs of the statistics: one day's entries, and score lists of at most
\* MaxScores scores in any order.
MaxScores == 2
StatEntryInputs ==
    { ActivityEntry("2025-11-03", "EMP001", "Authorization Created", 8, Half, 0),
      ActivityEntry("2025-11-03", "EMP002", "Appeal", 2, RInt(3), 1) }
StatActivityRowInputs ==
    { ActivityRow(20251103, "EMP001", "TS001", 8),
      ActivityRow(20251103, "EMP002", "TS003", 2) }

\* Inputs of the activity log on its own: entries of three date texts, one
\* of them with idle_hours = float("nan"), the refused constructor arguments,
\* and lists of at most MaxBulk of these for add_activities_bulk.
MaxBulk == 2
LogEntryInputs ==
    { ActivityEntry(d, e, "Appeal", 2, Half, 0) : d \in AggDates, e \in EmpIds }
    \cup { ActivityEntry("2025-11-03", "EMP001", "Appeal", 2, NaN, 0) }
    \cup BadEntries
BulkInputs ==
    UNION { [1..n -> { ActivityEntry("2025-11-03", "EMP001", "Appeal", 2, Half, 0),
                       ActivityEntry("2025-11-04", "EMP002", "Appeal", 1, RInt(0), 1),
                       ActivityEntry("2025-11-03", "EMP001", "Appeal", -1, Half, 0) }]
            : n \in 0..MaxBulk }

\* The bounds get_employee_activities is asked with.
BoundInputs == {NoneVal, Str("2025-11-03"), Str("2025-11-04")}

\* Inputs of the registry under the calculator: add_custom_task checks
\* nothing, so a base_score below zero is among its arguments.
ScoredTaskInputs ==
    { <<"Rework", "EC-3", -5, 4>>, <<"Appeal", "EC-1", 12, 5>> }
ScoredEntryInputs ==
    { ActivityEntry("2025-11-03", e, t, 2, Half, 0) :
        e \in EmpIds, t \in {"Rework", "Appeal"} }

\* Inputs of the trend: entries of two days, one of them with a weighted
\* productivity of three decimals (45 points of 400 are 11.25 %, weighted
\* 10.125).
TrendEntryInputs ==
    { ActivityEntry(d, e, "Authorization Created", c, Half, 0) :
        d \in LogDates, e \in EmpIds, c \in {1, 8} }

\* Inputs of the reporter: one day's entries whose scores lie on and beside
\* the limits of the distribution and of the alerts (final_performance 90,
\* 70, 89, 86, 60.625 and 6.5; weighted behaviour 5; idle hours 2), and the
\* thresholds generate_alert_report is called with, the defaults first.
ReportPayloads ==
    { <<"Authorization Created", 8, RInt(1), 0>>,
      <<"Eligibility Check", 14, RInt(3), 0>>,
      <<"Authorization Created", 8, RInt(2), 0>>,
      <<"Authorization Created", 8, RInt(0), 1>>,
      <<"Authorization Created", 5, RInt(0), 0>>,
      <<"Appeal", 2, RInt(3), 1>> }
ReportEntryInputs ==
    { ActivityEntry("2025-11-03", e, p[1], p[2], p[3], p[4]) :
        e \in EmpIds, p \in ReportPayloads }
ThresholdInputs == { <<RInt(70), RInt(5)>>, <<RInt(90), RInt(9)>> }

----------------------------------------------------------------------------
(* Operations.                                                             *)

Init ==
    /\ standards = StandardsInit(NoneVal)
    /\ \E given \in BOOLEAN, n \in TargetInputs :
          daily_target = PerformanceCalculatorInit(given, n)
    /\ activities = <<>>
    /\ employees = [e \in {} |-> NoneVal]
    /\ db = EmptyDb
    /\ op = [name |-> "__init__"]
    /\ ret = Done

\* ActivityLog.add_employee
AddEmployee(employee) ==
    /\ employees' = [x \in DOMAIN employees \cup {employee.emp_id} |->
                        IF x = employee.emp_id THEN employee ELSE employees[x]]
    /\ op' = [name |-> "add_employee"]
    /\ ret' = Done
    /\ UNCHANGED <<standards, daily_target, activities, db>>

\* ActivityEntry(...) followed by ActivityLog.add_activity: a refused
\* construction raises and nothing is added.
AddActivity(e) ==
    /\ Len(activities) < MaxLog
    /\ op' = [name |-> "add_activity"]
    /\ IF ActivityEntryPostInit(e) = Done
       THEN /\ activities' = Append(activities, e)
            /\ ret' = Done
       ELSE /\ activities' = activities
            /\ ret' = ActivityEntryPostInit(e)
    /\ UNCHANGED <<standards, daily_target, employees, db>>

\* Mutant of AddCustomTask: a name that is registered keeps its standard.
AddCustomTask_KeepFirst(task_name, ec_category, base_score, target_daily) ==
    /\ standards' = [x \in DOMAIN standards \cup {task_name} |->
                        IF x \in DOMAIN standards THEN standards[x]
                        ELSE TaskStandard(task_name, ec_category, base_score, target_daily)]
    /\ op' = [name |-> "add_custom_task", task_name |-> task_name,
              ec_category |-> ec_category, base_score |-> base_score,
              target_daily |-> target_daily]
    /\ ret' = Done
    /\ UNCHANGED <<daily_target, activities, employees, db>>

\* StandardsDatabase.add_custom_task
AddCustomTask(task_name, ec_category, base_score, target_daily) ==
    /\ standards' = [x \in DOMAIN standards \cup {task_name} |->
                        IF x = task_name
                        THEN TaskStandard(task_name, ec_category, base_score, target_daily)
                        ELSE standards[x]]
    /\ op' = [name |-> "add_custom_task", task_name |-> task_name,
              ec_category |-> ec_category, base_score |-> base_score,
              target_daily |-> target_daily]
    /\ ret' = Done
    /\ UNCHANGED <<daily_target, activities, employees, db>>

\* Mutant of SetDailyTarget: the check of the sign is missing.
SetDailyTarget_Unchecked(new_target) ==
    /\ op' = [name |-> "set_daily_target", new_target |-> new_target]
    /\ ret' = Done
    /\ daily_target' = new_target
    /\ UNCHANGED <<standards, activities, employees, db>>

\* PerformanceCalculator.set_daily_target
SetDailyTarget(new_target) ==
    /\ op' = [name |-> "set_daily_target", new_target |-> new_target]
    /\ IF new_target <= 0
       THEN /\ ret' = Raised("ValueError")
            /\ daily_target' = daily_target
       ELSE /\ ret' = Done
            /\ daily_target' = new_target
    /\ UNCHANGED <<standards, activities, employees, db>>

\* Mutant of CalculateEmployeePerformance: the call takes the entries it
\* scored out of the log.
CalculateEmployeePerformance_Draining(emp_id, target_date) ==
    /\ op' = [name |-> "calculate_employee_performance",
              emp_id |-> emp_id, target_date |-> target_date]
    /\ ret' = calculate_employee_performance(standards, daily_target, activities,
                                             employees, emp_id, target_date)
    /\ activities' = SelectSeq(activities,
                        LAMBDA a : ~(a.emp_id = emp_id /\ a.date = target_date))
    /\ UNCHANGED <<standards, daily_target, employees, db>>

\* A call of PerformanceCalculator.calculate_employee_performance
CalculateEmployeePerformance(emp_id, target_date) ==
    /\ op' = [name |-> "calculate_employee_performance",
              emp_id |-> emp_id, target_date |-> target_date]
    /\ ret' = calculate_employee_performance(standards, daily_target, activities,
                                             employees, emp_id, target_date)
    /\ UNCHANGED <<standards, daily_target, activities, employees, db>>

\* A direct call of PerformanceCalculator.calculate_behavior_score
CalculateBehaviorScore(idle_hours, conduct_flag) ==
    /\ op' = [name |-> "calculate_behavior_score",
              idle_hours |-> idle_hours, conduct_flag |-> conduct_flag]
    /\ ret' = [kind |-> "tuple",
               value |-> calculate_behavior_score(idle_hours, conduct_flag)]
    /\ UNCHANGED <<standards, daily_target, activities, employees, db>>

\* A direct call of StandardsDatabase.get_score
GetScore(task_name, count) ==
    /\ op' = [name |-> "get_score", task_name |-> task_name, count |-> count]
    /\ ret' = [kind |-> "number", value |-> get_score(standards, task_name, count)]
    /\ UNCHANGED <<standards, daily_target, activities, employees, db>>

\* A direct call of StandardsDatabase.get_task_standard
GetTaskStandard(task_name) ==
    /\ op' = [name |-> "get_task_standard", task_name |-> task_name]
    /\ ret' = get_task_standard(standards, task_name)
    /\ UNCHANGED <<standards, daily_target, activities, employees, db>>

\* A call of PerformanceCalculator.calculate_all_employees
CalculateAllEmployees(target_date) ==
    /\ op' = [name |-> "calculate_all_employees", target_date |-> target_date]
    /\ \E order \in SetOrders(EmpIdsOn(activities, target_date)) :
          ret' = calculate_all_employees(standards, daily_target, activities,
                                         employees, target_date, order)
    /\ UNCHANGED <<standards, daily_target, activities, employees, db>>

\* A call of PerformanceCalculator.get_employee_trend
GetEmployeeTrend(emp_id, start_date, end_date) ==
    /\ op' = [name |-> "get_employee_trend", emp_id |-> emp_id,
              start_date |-> start_date, end_date |-> end_date]
    /\ ret' = get_employee_trend(standards, daily_target, activities, employees,
                                 emp_id, start_date, end_date)
    /\ UNCHANGED <<standards, daily_target, activities, employees, db>>

\* A call of PerformanceCalculator.calculate_date_range
CalculateDateRange(start_date, end_date) ==
    /\ op' = [name |-> "calculate_date_range",
              start_date |-> start_date, end_date |-> end_date]
    /\ LET dates == RangeDates(activities, start_date, end_date)
           all == UNION { SetOrders(EmpIdsOn(activities, d)) : d \in dates }
       IN  \E orders \in [dates -> all] :
              /\ \A d \in dates :
                    orders[d] \in SetOrders(EmpIdsOn(activities, d))
              /\ ret' = calculate_date_range(standards, daily_target, activities,
                                             employees, start_date, end_date,
                                             orders)
    /\ UNCHANGED <<standards, daily_target, activities, employees, db>>

\* users.create_user: a User row; an emp_id already present is refused.
CreateUser(emp_id) ==
    /\ op' = [name |-> "create_user", emp_id |-> emp_id]
    /\ IF emp_id \in db.users
       THEN /\ ret' = Raised("HTTPException")
            /\ UNCHANGED db
       ELSE /\ ret' = Done
            /\ db' = [db EXCEPT !.users = @ \cup {emp_id}]
    /\ UNCHANGED <<standards, daily_target, activities, employees>>

\* activities.create_activity: an Activity row of a user.
CreateActivity(row) ==
    /\ Len(db.activities) < MaxActivityRows
    /\ row.emp_id \in db.users
    /\ op' = [name |-> "create_activity"]
    /\ ret' = Done
    /\ db' = [db EXCEPT !.activities = Append(@, row)]
    /\ UNCHANGED <<standards, daily_target, activities, employees>>

\* activities.update_activity: the fields that are set in the request are
\* written to the row with the id; an unknown id is answered with 404.  The
\* id of an Activity row is its place in db.activities.
UpdateActivity(i, update_data) ==
    /\ op' = [name |-> "update_activity", activity_id |-> i]
    /\ IF i \notin DOMAIN db.activities
       THEN /\ ret' = Raised("HTTPException")
            /\ UNCHANGED db
       ELSE /\ ret' = Done
            /\ db' = [db EXCEPT !.activities[i] =
                        [f \in DOMAIN @ |-> IF f \in DOMAIN update_data
                                            THEN update_data[f] ELSE @[f]]]
    /\ UNCHANGED <<standards, daily_target, activities, employees>>

\* activities.delete_activity: the row with the id is deleted; an unknown
\* id is answered with 404.
DeleteActivity(i) ==
    /\ op' = [name |-> "delete_activity", activity_id |-> i]
    /\ IF i \notin DOMAIN db.activities
       THEN /\ ret' = Raised("HTTPException")
            /\ UNCHANGED db
       ELSE /\ ret' = Done
            /\ db' = [db EXCEPT !.activities =
                        SubSeq(@, 1, i - 1) \o SubSeq(@, i + 1, Len(@))]
    /\ UNCHANGED <<standards, daily_target, activities, employees>>

\* A DailyMetric row of a user added to the session and committed.
AddDailyMetric(row) ==
    /\ Len(db.daily_metrics) < MaxMetricRows
    /\ row.emp_id \in db.users
    /\ op' = [name |-> "add_daily_metric"]
    /\ ret' = Done
    /\ db' = [db EXCEPT !.daily_metrics = Append(@, row)]
    /\ UNCHANGED <<standards, daily_target, activities, employees>>

\* A call of PerformanceCalculatorService.calculate_for_employee
CalculateForEmployee(emp_id, target_date) ==
    /\ op' = [name |-> "calculate_for_employee", emp_id |-> emp_id,
              target_date |-> target_date]
    /\ \E metric \in FirstMetric(db, emp_id, target_date) :
          LET r == calculate_for_employee(db, emp_id, target_date, metric)
          IN  ret' = r.ret /\ db' = r.db
    /\ UNCHANGED <<standards, daily_target, activities, employees>>

\* A call of PerformanceCalculatorService.calculate_for_all_employees
CalculateForAllEmployees(target_date) ==
    /\ op' = [name |-> "calculate_for_all_employees",
              target_date |-> target_date]
    /\ LET ids == WebEmpIdsOn(db, target_date)
           rows == UNION { FirstMetric(db, e, target_date) : e \in ids }
       IN  \E order \in SetOrders(ids), metrics \in [ids -> rows] :
              /\ \A e \in ids : metrics[e] \in FirstMetric(db, e, target_date)
              /\ LET r == calculate_for_all_employees(db, target_date, order,
                                                      metrics)
                 IN  /\ ret' = [kind |-> "list", value |-> r.ret]
                     /\ db' = r.db
    /\ UNCHANGED <<standards, daily_target, activities, employees>>

\* A call of PerformanceCalculatorService.get_statistics; the query returns
\* the PerformanceScore rows of the date in an order it does not fix.
GetStatistics(target_date) ==
    /\ op' = [name |-> "get_statistics", target_date |-> target_date]
    /\ LET ids == { k \in DOMAIN db.performance_scores :
                        db.performance_scores[k].date = target_date }
       IN  \E order \in SetOrders(ids) :
              ret' = get_statistics(
                        [i \in DOMAIN order |-> db.performance_scores[order[i]]],
                        target_date)
    /\ UNCHANGED <<standards, daily_target, activities, employees, db>>

\* The scores the calculator gives for the entries of the log, and the
\* lists of at most n of them.
LogScores ==
    { calculate_employee_performance(standards, daily_target, activities,
                                     employees, activities[i].emp_id,
                                     activities[i].date) :
        i \in DOMAIN activities }

ScoreLists(n) ==
    UNION { SetOrders(T) : T \in { U \in SUBSET LogScores : Cardinality(U) <= n } }

\* A call of PerformanceCalculator.get_productivity_statistics
GetProductivityStatistics(scores) ==
    /\ op' = [name |-> "get_productivity_statistics", scores |-> scores]
    /\ ret' = get_productivity_statistics(scores)
    /\ UNCHANGED <<standards, daily_target, activities, employees, db>>

\* A call of PerformanceReporter.generate_statistics_report
GenerateStatisticsReport(scores) ==
    /\ op' = [name |-> "generate_statistics_report", scores |-> scores]
    /\ ret' = generate_statistics_report(scores)
    /\ UNCHANGED <<standards, daily_target, activities, employees, db>>

\* A call of PerformanceReporter.generate_alert_report
GenerateAlertReport(scores, performance_threshold, behavior_threshold) ==
    /\ op' = [name |-> "generate_alert_report", scores |-> scores,
              performance_threshold |-> performance_threshold,
              behavior_threshold |-> behavior_threshold]
    /\ ret' = generate_alert_report(scores, performance_threshold,
                                    behavior_threshold)
    /\ UNCHANGED <<standards, daily_target, activities, employees, db>>

\* The ActivityEntry(...) constructions of a list followed by
\* ActivityLog.add_activities_bulk: the first refused construction raises and
\* the call is never made.
AddActivitiesBulk(entries) ==
    /\ Len(activities) + Len(entries) <= MaxLog
    /\ op' = [name |-> "add_activities_bulk"]
    /\ IF \A i \in DOMAIN entries : ActivityEntryPostInit(entries[i]) = Done
       THEN /\ activities' = activities \o entries
            /\ ret' = Done
       ELSE /\ activities' = activities
            /\ ret' = Raised("ValueError")
    /\ UNCHANGED <<standards, daily_target, employees, db>>

\* A call of ActivityLog.get_employee_activities
GetEmployeeActivities(emp_id, start_date, end_date) ==
    /\ op' = [name |-> "get_employee_activities", emp_id |-> emp_id,
              start_date |-> start_date, end_date |-> end_date]
    /\ ret' = [kind |-> "list",
               value |-> get_employee_activities(activities, emp_id,
                                                 start_date, end_date)]
    /\ UNCHANGED <<standards, daily_target, activities, employees, db>>

Next ==
    \/ \E employee \in EmployeeInputs : AddEmployee(employee)
    \/ \E e \in EntryInputs : AddActivity(e)
    \/ \E c \in CustomTaskInputs : AddCustomTask(c[1], c[2], c[3], c[4])
    \/ \E n \in TargetInputs : SetDailyTarget(n)
    \/ \E emp_id \in EmpIds, d \in LogDates : CalculateEmployeePerformance(emp_id, d)

Spec == Init /\ [][Next]_vars

\* The behaviour score on its own: direct calls with arguments from bounded sets.
NextBehavior ==
    \E idle_hours \in IdleInputs, conduct_flag \in FlagInputs :
        CalculateBehaviorScore(idle_hours, conduct_flag)

SpecBehavior == Init /\ [][NextBehavior]_vars

\* The standards registry on its own: construction with the defaults or with
\* a custom mapping, registrations and score lookups.
InitStandards ==
    /\ \E k \in DOMAIN CustomStandardsInputs :
          LET custom_standards == CustomStandardsInputs[k] IN
          /\ standards = StandardsInit(custom_standards)
          /\ op = [name |-> "__init__",
                   custom_standards |-> [given |-> custom_standards # NoneVal,
                                         tasks |-> IF custom_standards = NoneVal
                                                   THEN {}
                                                   ELSE DOMAIN custom_standards]]
    /\ daily_target = PerformanceCalculatorInit(FALSE, 0)
    /\ activities = <<>>
    /\ employees = [e \in {} |-> NoneVal]
    /\ db = EmptyDb
    /\ ret = Done

NextStandards ==
    \/ \E c \in RegistryTaskInputs : AddCustomTask(c[1], c[2], c[3], c[4])
    \/ \E t \in ScoreTasks, count \in 0..MaxCount : GetScore(t, count)
    \/ \E t \in ScoreTasks : GetTaskStandard(t)

SpecStandards == InitStandards /\ [][NextStandards]_vars

\* The aggregation layer: a calculator with the default target over a log
\* that grows, and the operations that score many employees or dates.
InitAggregate ==
    /\ standards = StandardsInit(NoneVal)
    /\ daily_target = PerformanceCalculatorInit(FALSE, 0)
    /\ activities = <<>>
    /\ employees = [e \in {} |-> NoneVal]
    /\ db = EmptyDb
    /\ op = [name |-> "__init__"]
    /\ ret = Done

NextAggregate ==
    \/ \E e \in AggEntryInputs : AddActivity(e)
    \/ \E d \in AggDates : CalculateAllEmployees(d)
    \/ \E emp_id \in EmpIds, r \in RangeInputs :
            GetEmployeeTrend(emp_id, r[1], r[2])
    \/ \E r \in RangeInputs : CalculateDateRange(r[1], r[2])

SpecAggregate == InitAggregate /\ [][NextAggregate]_vars

\* The statistics of the engine, of the reporter and of the web service.
InitStatistics ==
    /\ standards = StandardsInit(NoneVal)
    /\ daily_target = PerformanceCalculatorInit(FALSE, 0)
    /\ activities = <<>>
    /\ employees = [e \in {} |-> NoneVal]
    /\ db = [EmptyDb EXCEPT !.task_standards = WebTaskStandards]
    /\ op = [name |-> "__init__"]
    /\ ret = Done

NextStatistics ==
    \/ \E employee \in EmployeeInputs : AddEmployee(employee)
    \/ \E e \in StatEntryInputs : AddActivity(e)
    \/ \E scores \in ScoreLists(MaxScores) : GetProductivityStatistics(scores)
    \/ \E scores \in ScoreLists(MaxScores) : GenerateStatisticsReport(scores)
    \/ \E emp_id \in EmpIds : CreateUser(emp_id)
    \/ \E row \in StatActivityRowInputs : CreateActivity(row)
    \/ \E emp_id \in EmpIds, d \in WebDates : CalculateForEmployee(emp_id, d)
    \/ \E d \in WebDates : GetStatistics(d)

SpecStatistics == InitStatistics /\ [][NextStatistics]_vars

\* The web service over its database: users, activity rows and daily
\* metric rows come in, and scores are calculated and stored.
InitWeb ==
    /\ standards = StandardsInit(NoneVal)
    /\ daily_target = PerformanceCalculatorInit(FALSE, 0)
    /\ activities = <<>>
    /\ employees = [e \in {} |-> NoneVal]
    /\ db = [EmptyDb EXCEPT !.task_standards = WebTaskStandards]
    /\ op = [name |-> "__init__"]
    /\ ret = Done

NextWeb ==
    \/ \E emp_id \in EmpIds : CreateUser(emp_id)
    \/ \E row \in ActivityRowInputs : CreateActivity(row)
    \/ \E row \in DailyMetricRowInputs : AddDailyMetric(row)
    \/ \E emp_id \in EmpIds, d \in WebDates : CalculateForEmployee(emp_id, d)
    \/ \E d \in WebDates : CalculateForAllEmployees(d)

SpecWeb == InitWeb /\ [][NextWeb]_vars

\* The web service over activities that are created, changed and deleted.
NextWebEdit ==
    \/ \E emp_id \in EmpIds : CreateUser(emp_id)
    \/ \E row \in StatActivityRowInputs : CreateActivity(row)
    \/ \E i \in 1..MaxActivityRows, u \in DOMAIN UpdateInputs :
            UpdateActivity(i, UpdateInputs[u])
    \/ \E i \in 1..MaxActivityRows : DeleteActivity(i)
    \/ \E row \in EditMetricRowInputs : AddDailyMetric(row)
    \/ \E emp_id \in EmpIds : CalculateForEmployee(emp_id, 20251103)
    \/ CalculateForAllEmployees(20251103)

SpecWebEdit == InitWeb /\ [][NextWebEdit]_vars

\* The activity log on its own.
InitLog ==
    /\ standards = StandardsInit(NoneVal)
    /\ daily_target = PerformanceCalculatorInit(FALSE, 0)
    /\ activities = <<>>
    /\ employees = [e \in {} |-> NoneVal]
    /\ db = EmptyDb
    /\ op = [name |-> "__init__"]
    /\ ret = Done

NextLog ==
    \/ \E e \in LogEntryInputs : AddActivity(e)
    \/ \E entries \in BulkInputs : AddActivitiesBulk(entries)
    \/ \E emp_id \in EmpIds, start_date \in BoundInputs, end_date \in BoundInputs :
            GetEmployeeActivities(emp_id, start_date, end_date)

SpecLog == InitLog /\ [][NextLog]_vars

\* The reporter over the scores of one day's log.
NextReport ==
    \/ \E employee \in EmployeeInputs : AddEmployee(employee)
    \/ \E e \in ReportEntryInputs : AddActivity(e)
    \/ \E scores \in ScoreLists(MaxScores) : GenerateStatisticsReport(scores)
    \/ \E scores \in ScoreLists(MaxScores), t \in ThresholdInputs :
            GenerateAlertReport(scores, t[1], t[2])

SpecReport == InitLog /\ [][NextReport]_vars

\* The trend of an employee beside the scores of the single days.
NextTrend ==
    \/ \E e \in TrendEntryInputs : AddActivity(e)
    \/ \E emp_id \in EmpIds, r \in RangeInputs : GetEmployeeTrend(emp_id, r[1], r[2])
    \/ \E emp_id \in EmpIds, d \in LogDates : CalculateEmployeePerformance(emp_id, d)

SpecTrend == InitAggregate /\ [][NextTrend]_vars

\* The calculator over a registry that is built from the default or a custom
\* mapping and then changed.
NextRegistry ==
    \/ \E c \in ScoredTaskInputs : AddCustomTask(c[1], c[2], c[3], c[4])
    \/ \E e \in ScoredEntryInputs : AddActivity(e)
    \/ \E emp_id \in EmpIds : CalculateEmployeePerformance(emp_id, "2025-11-03")

SpecRegistry == InitStandards /\ [][NextRegistry]_vars

----------------------------------------------------------------------------
(* Properties.                                                             *)

IsCalc == op.name = "calculate_employee_performance"
IsScore == ret.kind = "PerformanceScore"

\* The positions in the log of the entries of one employee on one date.
MatchIdx(emp_id, target_date) ==
    { i \in 1..Len(activities) :
        activities[i].emp_id = emp_id /\ activities[i].date = target_date }

RECURSIVE SumScores(_)
SumScores(I) ==
    IF I = {} THEN RInt(0)
    ELSE LET i == CHOOSE x \in I : TRUE
         IN  RAdd(get_score(standards, activities[i].task_name, activities[i].count),
                  SumScores(I \ {i}))

RECURSIVE SumCounts(_)
SumCounts(I) ==
    IF I = {} THEN 0
    ELSE LET i == CHOOSE x \in I : TRUE
         IN  activities[i].count + SumCounts(I \ {i})

\* C1: calculate_employee_performance returns None if and only if the log
\* holds no entry with that emp_id and date; with at least one such entry
\* (count 0 or an unregistered task included) it returns a score.
C1_NoScoreIffNoEntry ==
    IsCalc =>
        LET I == MatchIdx(op.emp_id, op.target_date)
        IN  /\ (ret = NoneVal) <=> (I = {})
            /\ (I # {}) => IsScore

\* A score of zero points: its entries have count 0 or an unregistered task.
C1_Witness ==
    /\ IsCalc
    /\ IsScore
    /\ ret.total_task_points = RInt(0)
    /\ MatchIdx(op.emp_id, op.target_date) # {}

\* C2: in every returned score final_performance is the sum of the
\* weighted_prod_score and weighted_behavior_score stored in that score.
C2_FinalIsSum ==
    IsScore =>
        ret.final_performance =
            RAdd(ret.weighted_prod_score, ret.weighted_behavior_score)

C2_Witness ==
    /\ IsScore
    /\ ret.weighted_prod_score # RInt(0)
    /\ ret.weighted_behavior_score # RInt(0)

\* C3: every score computed from entries that passed the ActivityEntry
\* validation has behavior_score_raw in [0, 100].
C3_BehaviorRawInRange ==
    IsScore =>
        /\ RLeq(RInt(0), ret.behavior_score_raw)
        /\ RLeq(ret.behavior_score_raw, RInt(100))

\* The penalties exceed 100 and the floor applies.
C3_Witness ==
    /\ IsScore
    /\ ret.idle_hours = RInt(12)
    /\ ret.behavior_score_raw = RInt(0)

\* C4: calculate_behavior_score(idle_hours, conduct_flag) returns
\* raw = max(0, 100 - 10*idle_hours - 50*conduct_flag) and weighted = raw/10;
\* raw is 0 whenever 10*idle_hours + 50*conduct_flag >= 100, and weighted is
\* in [0, 10] when idle_hours >= 0 and conduct_flag is 0 or 1.
C4_BehaviorFormula ==
    op.name = "calculate_behavior_score" =>
        LET i == op.idle_hours
            f == op.conduct_flag
            num == 100 * i.d - 10 * i.n - 50 * f * i.d
            raw == ret.value.base_score
            w == ret.value.weighted_score
        IN  /\ raw = Rat(IF num > 0 THEN num ELSE 0, i.d)
            /\ w = Rat(raw.n, raw.d * 10)
            /\ (10 * i.n + 50 * f * i.d >= 100 * i.d) => raw = RInt(0)
            /\ (i.n >= 0 /\ f \in {0, 1}) =>
                    RLeq(RInt(0), w) /\ RLeq(w, RInt(10))

\* 5 idle hours and a conduct flag: the penalties are exactly 100.
C4_Witness ==
    /\ op.name = "calculate_behavior_score"
    /\ op.idle_hours = RInt(5)
    /\ op.conduct_flag = 1
    /\ ret.value.base_score = RInt(0)

\* C5: productivity_percentage = total_task_points / daily_target * 100 and
\* weighted_prod_score = productivity_percentage * 0.90, unclamped: whenever
\* total_task_points > daily_target the percentage exceeds 100 and the
\* weighted score exceeds 90.
C5_ProductivityUnclamped ==
    IsScore =>
        LET total == ret.total_task_points
            pct == ret.productivity_percentage
            wp == ret.weighted_prod_score
        IN  /\ pct = Rat(total.n * 100, total.d * daily_target)
            /\ wp = Rat(pct.n * 9, pct.d * 10)
            /\ RLess(RInt(daily_target), total) =>
                    RLess(RInt(100), pct) /\ RLess(RInt(90), wp)

\* C6: total_task_points is the sum of get_score over the employee's entries
\* of the date; the keys of task_breakdown are exactly the task names of those
\* entries and each value is the sum of count over the entries of that name.
C6_TaskPointsAndBreakdown ==
    (IsCalc /\ IsScore) =>
        LET I == MatchIdx(op.emp_id, op.target_date)
        IN  /\ ret.total_task_points = SumScores(I)
            /\ DOMAIN ret.task_breakdown = { activities[i].task_name : i \in I }
            /\ \A t \in DOMAIN ret.task_breakdown :
                    ret.task_breakdown[t] =
                        SumCounts({ i \in I : activities[i].task_name = t })

\* Two entries of one task name with a non-zero count each.
C6_Witness ==
    /\ IsCalc
    /\ IsScore
    /\ \E i, j \in MatchIdx(op.emp_id, op.target_date) :
            /\ i < j
            /\ activities[i].task_name = activities[j].task_name
            /\ activities[i].count > 0
            /\ activities[j].count > 0

\* C7: the idle_hours and conduct_flag of a score, from which its behaviour
\* score is computed, are the maximum idle_hours and the maximum conduct_flag
\* over the employee's entries of the date, whatever their order in the log.
C7_BehaviorInputsAreMax ==
    (IsCalc /\ IsScore) =>
        LET I == MatchIdx(op.emp_id, op.target_date)
        IN  /\ \A i \in I : RLeq(activities[i].idle_hours, ret.idle_hours)
            /\ \E i \in I : activities[i].idle_hours = ret.idle_hours
            /\ \A i \in I : activities[i].conduct_flag <= ret.conduct_flag
            /\ \E i \in I : activities[i].conduct_flag = ret.conduct_flag
            /\ ret.behavior_score_raw =
                    calculate_behavior_score(ret.idle_hours, ret.conduct_flag).base_score

\* The largest idle_hours and the set conduct flag are on an entry that is
\* neither the only one nor the last.
C7_Witness ==
    /\ IsCalc
    /\ IsScore
    /\ \E i, j \in MatchIdx(op.emp_id, op.target_date) :
            /\ i < j
            /\ RLess(activities[j].idle_hours, activities[i].idle_hours)
            /\ activities[j].conduct_flag < activities[i].conduct_flag

\* C8: get_score(task_name, count) is count * base_score for a registered
\* task (0 for count 0) and 0 for an unregistered one; it raises nothing.
C8_GetScore ==
    op.name = "get_score" =>
        /\ ret.kind = "number"
        /\ IF op.task_name \in DOMAIN standards
           THEN ret.value = RInt(op.count * standards[op.task_name].base_score)
           ELSE ret.value = RInt(0)

C8_Witness ==
    /\ op.name = "get_score"
    /\ op.task_name \notin DOMAIN standards
    /\ op.count > 0
    /\ ret.value = RInt(0)

\* C9: with the default registry and daily_target 400, an employee whose only
\* entries of a date are 8 x "Authorization Created" and 2 x "Appeal", each
\* with idle_hours 0.5 and conduct_flag 0, scores 380 points, 95.0 %, 85.5
\* weighted productivity, 95.0 raw and 9.5 weighted behaviour, 95.0 final.
C9_Scenario ==
    LET I == MatchIdx(op.emp_id, op.target_date)
        wanted == { ActivityEntry(op.target_date, op.emp_id,
                                  "Authorization Created", 8, Rat(1, 2), 0),
                    ActivityEntry(op.target_date, op.emp_id,
                                  "Appeal", 2, Rat(1, 2), 0) }
    IN  ( /\ IsCalc
          /\ standards = StandardsInit(NoneVal)
          /\ daily_target = 400
          /\ Cardinality(I) = 2
          /\ { activities[i] : i \in I } = wanted )
        => /\ IsScore
           /\ ret.total_task_points = RInt(380)
           /\ ret.productivity_percentage = RInt(95)
           /\ ret.weighted_prod_score = Rat(171, 2)
           /\ ret.behavior_score_raw = RInt(95)
           /\ ret.weighted_behavior_score = Rat(19, 2)
           /\ ret.final_performance = RInt(95)

C9_Witness ==
    /\ IsCalc
    /\ IsScore
    /\ standards = StandardsInit(NoneVal)
    /\ daily_target = 400
    /\ Cardinality(MatchIdx(op.emp_id, op.target_date)) = 2
    /\ { activities[i].task_name : i \in MatchIdx(op.emp_id, op.target_date) }
            = {"Authorization Created", "Appeal"}
    /\ \A i \in MatchIdx(op.emp_id, op.target_date) :
            /\ activities[i].count \in {8, 2}
            /\ activities[i].idle_hours = Rat(1, 2)
            /\ activities[i].conduct_flag = 0
    /\ ret.final_performance = RInt(95)

C11_AllEmployees ==
    op.name = "calculate_all_employees" =>
        /\ ret.kind = "list"
        /\ LET v == ret.value
               E == { activities[i].emp_id :
                        i \in { j \in DOMAIN activities :
                                    activities[j].date = op.target_date } }
           IN  /\ Len(v) = Cardinality(E)
               /\ { v[i].emp_id : i \in DOMAIN v } = E
               /\ \A i \in DOMAIN v :
                    /\ v[i].kind = "PerformanceScore"
                    /\ v[i].date = op.target_date
               /\ \A i, j \in DOMAIN v :
                    i < j => RLeq(v[j].final_performance, v[i].final_performance)

\* Two employees on the date, the one logged later scoring higher.
C11_Witness ==
    /\ op.name = "calculate_all_employees"
    /\ Len(ret.value) = 2
    /\ RLess(ret.value[2].final_performance, ret.value[1].final_performance)
    /\ \E i, j \in DOMAIN activities :
            /\ i < j
            /\ activities[i].emp_id = ret.value[2].emp_id
            /\ activities[j].emp_id = ret.value[1].emp_id

\* The calendar day a date text names, as a number that orders the days.
CalendarDay(s) ==
    LET p == Strptime(s) IN 10000 * p.y + 100 * p.m + p.d

\* C12: get_employee_trend(emp_id, start, end) has exactly one row for each
\* calendar date within [start, end] on which the employee has an entry, no
\* other row, and the rows are in strictly ascending date order.
C12_Trend ==
    op.name = "get_employee_trend" =>
        /\ ret.kind = "DataFrame"
        /\ LET rows == ret.value
               days == { CalendarDay(activities[i].date) :
                            i \in { j \in DOMAIN activities :
                                /\ activities[j].emp_id = op.emp_id
                                /\ CalendarDay(op.start_date)
                                        <= CalendarDay(activities[j].date)
                                /\ CalendarDay(activities[j].date)
                                        <= CalendarDay(op.end_date) } }
           IN  /\ { CalendarDay(rows[i].Date) : i \in DOMAIN rows } = days
               /\ \A i \in DOMAIN rows : rows[i].Emp_ID = op.emp_id
               /\ \A i, j \in DOMAIN rows :
                    i < j => CalendarDay(rows[i].Date) < CalendarDay(rows[j].Date)

\* C13: calculate_date_range(start, end) returns a mapping whose keys are
\* exactly the calendar dates d, start <= d <= end, on which an entry exists,
\* each once, in ascending date order, and whose value for a key is the
\* non-empty list calculate_all_employees gives for that date: one score per
\* employee with an entry on it, by non-increasing final_performance.
C13_DateRange ==
    op.name = "calculate_date_range" =>
        /\ ret.kind = "dict"
        /\ LET keys == ret.keys
               days == { CalendarDay(activities[i].date) :
                            i \in { j \in DOMAIN activities :
                                /\ CalendarDay(op.start_date)
                                        <= CalendarDay(activities[j].date)
                                /\ CalendarDay(activities[j].date)
                                        <= CalendarDay(op.end_date) } }
           IN  /\ { CalendarDay(keys[i]) : i \in DOMAIN keys } = days
               /\ \A i, j \in DOMAIN keys :
                    i < j => CalendarDay(keys[i]) < CalendarDay(keys[j])
               /\ \A i \in DOMAIN keys :
                    LET v == ret.value[keys[i]]
                        E == { activities[k].emp_id :
                                k \in { j \in DOMAIN activities :
                                    activities[j].date = keys[i] } }
                    IN  /\ v # <<>>
                        /\ Len(v) = Cardinality(E)
                        /\ \A k \in DOMAIN v :
                            /\ v[k].emp_id \in E
                            /\ v[k] = calculate_employee_performance(
                                        standards, daily_target, activities,
                                        employees, v[k].emp_id, keys[i])
                        /\ \A k, l \in DOMAIN v :
                            /\ k < l => RLeq(v[l].final_performance,
                                             v[k].final_performance)
                            /\ k # l => v[k].emp_id # v[l].emp_id

\* C14: statistics over an empty collection of scores are a result, not an
\* error: count 0, the three averages 0, no top and no bottom performer.
C14_EmptyStatistics ==
    LET empty ==
            \/ op.name = "get_productivity_statistics" /\ op.scores = <<>>
            \/ /\ op.name = "get_statistics"
               /\ \A k \in DOMAIN db.performance_scores :
                      db.performance_scores[k].date # op.target_date
    IN  empty =>
            /\ ret.kind = "dict"
            /\ ret.count = 0
            /\ ret.avg_performance = RInt(0)
            /\ ret.avg_productivity = RInt(0)
            /\ ret.avg_behavior = RInt(0)
            /\ ret.top_performer = NoneVal
            /\ ret.needs_improvement = NoneVal

\* The engine's statistics asked for an empty list while the log has entries.
C14_Witness ==
    /\ op.name = "get_productivity_statistics"
    /\ op.scores = <<>>
    /\ activities # <<>>
    /\ ret.count = 0

\* Whether name is the name of a score of the list whose final_performance
\* no score of the list exceeds (top) or undercuts (bottom).
NamesTop(scores, name) ==
    \E i \in DOMAIN scores :
        /\ scores[i].name = name
        /\ \A j \in DOMAIN scores :
              RLeq(scores[j].final_performance, scores[i].final_performance)

NamesBottom(scores, name) ==
    \E i \in DOMAIN scores :
        /\ scores[i].name = name
        /\ \A j \in DOMAIN scores :
              RLeq(scores[i].final_performance, scores[j].final_performance)

\* The engine's and the reporter's statistics name a top and a bottom score.
EngineTopBottom ==
    /\ (op.name = "get_productivity_statistics" /\ op.scores # <<>>) =>
            /\ NamesTop(op.scores, ret.top_performer)
            /\ NamesBottom(op.scores, ret.needs_improvement)
    /\ (op.name = "generate_statistics_report" /\ op.scores # <<>>) =>
            /\ NamesTop(op.scores, ret.highest_name)
            /\ NamesBottom(op.scores, ret.lowest_name)

\* The web service's statistics name a top and a bottom row of the date.
WebTopBottom ==
    (op.name = "get_statistics" /\ ret.count > 0) =>
        LET rows == { db.performance_scores[k] :
                        k \in { q \in DOMAIN db.performance_scores :
                            db.performance_scores[q].date = op.target_date } }
        IN  /\ \E r \in rows :
                /\ r.emp_id = ret.top_performer.emp_id
                /\ r.final_performance_percent = ret.top_performer.performance
                /\ \A x \in rows : RLeq(x.final_performance_percent,
                                        r.final_performance_percent)
            /\ \E r \in rows :
                /\ r.emp_id = ret.needs_improvement.emp_id
                /\ r.final_performance_percent = ret.needs_improvement.performance
                /\ \A x \in rows : RLeq(r.final_performance_percent,
                                        x.final_performance_percent)

IsSortedDesc(scores) ==
    \A i, j \in DOMAIN scores :
        i < j => RLeq(scores[j].final_performance, scores[i].final_performance)

\* C15 as claimed: for any non-empty collection of scores, in whatever order
\* it is passed, the statistics name as top performer a score of maximal
\* final_performance and as bottom performer one of minimal final_performance.
C15_TopBottomAnyOrder == EngineTopBottom /\ WebTopBottom

\* C15 amended: the engine's and the reporter's statistics do so when the
\* list is passed in order of non-increasing final_performance, the order
\* calculate_all_employees returns; the web service's statistics, which sort
\* the rows themselves, do so for any order.
C15_TopBottomSortedInput ==
    /\ (op.name \in {"get_productivity_statistics", "generate_statistics_report"}
            /\ IsSortedDesc(op.scores)) => EngineTopBottom
    /\ WebTopBottom

\* Two scores of different final_performance and name passed best first, and
\* the same two as rows of the web service.
C15_Witness ==
    /\ op.name = "get_productivity_statistics"
    /\ Len(op.scores) = 2
    /\ RLess(op.scores[2].final_performance, op.scores[1].final_performance)
    /\ op.scores[1].name # op.scores[2].name
    /\ ret.top_performer = op.scores[1].name
    /\ ret.needs_improvement = op.scores[2].name

\* C16: in the web service an employee with a DailyMetric row on a date and
\* no Activity row on it gets no score: calculate_for_employee returns None
\* and leaves the tables as they are, and calculate_for_all_employees for the
\* date returns no score of the employee and stores none.
C16_NoScoreFromMetricsAlone ==
    [][ \A e \in EmpIds :
          LET target_date == op'.target_date
              metricOnly ==
                /\ \E i \in DOMAIN db.daily_metrics :
                      /\ db.daily_metrics[i].emp_id = e
                      /\ db.daily_metrics[i].date = target_date
                /\ \A i \in DOMAIN db.activities :
                      ~ (/\ db.activities[i].emp_id = e
                         /\ db.activities[i].date = target_date)
          IN  /\ (op'.name = "calculate_for_employee" /\ op'.emp_id = e
                    /\ metricOnly) =>
                    (ret' = NoneVal /\ db' = db)
              /\ (op'.name = "calculate_for_all_employees" /\ metricOnly) =>
                    /\ \A i \in DOMAIN ret'.value : ret'.value[i].emp_id # e
                    /\ LET k == ScoreId(e, target_date)
                       IN  IF k \in DOMAIN db.performance_scores
                           THEN /\ k \in DOMAIN db'.performance_scores
                                /\ db'.performance_scores[k] = db.performance_scores[k]
                           ELSE k \notin DOMAIN db'.performance_scores
        ]_vars

\* An employee with activities on another day and a daily metric on this day
\* was asked for and got no score, while a colleague has one stored.
C16_Witness ==
    /\ op.name = "calculate_for_employee"
    /\ ret = NoneVal
    /\ \E i \in DOMAIN db.daily_metrics :
          /\ db.daily_metrics[i].emp_id = op.emp_id
          /\ db.daily_metrics[i].date = op.target_date
    /\ \E i \in DOMAIN db.activities :
          /\ db.activities[i].emp_id = op.emp_id
          /\ db.activities[i].date # op.target_date
    /\ ScoreId(op.emp_id, op.target_date) \notin DOMAIN db.performance_scores

\* C17: set_daily_target(n) with n <= 0 raises an error and leaves
\* daily_target as it was; with n > 0 it sets daily_target to n.  Nothing
\* else changes daily_target, and every calculation divides by the
\* daily_target of the time of the call, so later calculations use the value
\* the last accepted call set.
C17_SetDailyTarget ==
    [][ /\ op'.name = "set_daily_target" =>
            IF op'.new_target <= 0
            THEN ret' = Raised("ValueError") /\ daily_target' = daily_target
            ELSE ret' = Done /\ daily_target' = op'.new_target
        /\ daily_target' # daily_target => op'.name = "set_daily_target"
        /\ (op'.name = "calculate_employee_performance" /\ IsScore') =>
            /\ daily_target' = daily_target
            /\ ret'.productivity_percentage =
                    RMul(RDiv(ret'.total_task_points, RInt(daily_target)),
                         RInt(100))
      ]_vars

\* set_daily_target(200) accepted by a calculator whose log has entries.
C17_Witness ==
    /\ op.name = "set_daily_target"
    /\ op.new_target = 200
    /\ ret = Done
    /\ daily_target = 200
    /\ activities # <<>>

\* C18: a construction of an ActivityEntry with a malformed date, a negative
\* count, negative idle_hours or a conduct_flag other than 0 and 1 fails and
\* adds nothing, so every entry the log holds has a date that parses, count
\* >= 0, idle_hours >= 0 and conduct_flag 0 or 1.
C18_LogHoldsValidEntries ==
    /\ \A i \in DOMAIN activities :
          /\ Strptime(activities[i].date) # Raised("ValueError")
          /\ activities[i].count >= 0
          /\ FloatGeq(activities[i].idle_hours, RInt(0))
          /\ activities[i].conduct_flag \in {0, 1}

\* C19: get_employee_activities(emp_id, start_date, end_date) returns, in
\* insertion order, exactly the entries of the employee whose calendar date d
\* has start_date <= d <= end_date, a bound left out not restricting d.
C19_EmployeeActivitiesInRange ==
    op.name = "get_employee_activities" =>
        ret = [kind |-> "list",
               value |-> SelectSeq(activities, LAMBDA a :
                    /\ a.emp_id = op.emp_id
                    /\ \/ op.start_date = NoneVal
                       \/ CalendarDay(op.start_date.value) <= CalendarDay(a.date)
                    /\ \/ op.end_date = NoneVal
                       \/ CalendarDay(a.date) <= CalendarDay(op.end_date.value))]

\* C20: whatever registry operations (construction from the default or a
\* custom mapping, add_custom_task) and activity additions came before, every
\* score calculate_employee_performance produces has total_task_points >= 0.
C20_TotalTaskPointsNonNegative ==
    (IsCalc /\ IsScore) => RLeq(RInt(0), ret.total_task_points)

\* C21: the distribution of generate_statistics_report counts every score of
\* a non-empty list in exactly one of excellent (final_performance >= 90),
\* good (70 <= final_performance < 90) and needs improvement
\* (final_performance < 70), so the three counts add up to the number of
\* scores; a score of exactly 90 is excellent and one of exactly 70 is good.
C21_DistributionPartitions ==
    (op.name = "generate_statistics_report" /\ op.scores # <<>>) =>
        LET fp(i) == op.scores[i].final_performance
            E == { i \in DOMAIN op.scores : RLeq(RInt(90), fp(i)) }
            G == { i \in DOMAIN op.scores :
                        RLeq(RInt(70), fp(i)) /\ RLess(fp(i), RInt(90)) }
            N == { i \in DOMAIN op.scores : RLess(fp(i), RInt(70)) }
        IN  /\ ret.excellent = Cardinality(E)
            /\ ret.good = Cardinality(G)
            /\ ret.needs_improvement = Cardinality(N)
            /\ E \cup G \cup N = DOMAIN op.scores
            /\ E \cap G = {} /\ E \cap N = {} /\ G \cap N = {}
            /\ ret.excellent + ret.good + ret.needs_improvement = Len(op.scores)
            /\ \A i \in DOMAIN op.scores :
                    /\ fp(i) = RInt(90) => i \in E
                    /\ fp(i) = RInt(70) => i \in G

\* A report over a score of exactly 90 and a score of exactly 70.
C21_Witness ==
    /\ op.name = "generate_statistics_report"
    /\ Len(op.scores) = 2
    /\ op.scores[1].final_performance = RInt(90)
    /\ op.scores[2].final_performance = RInt(70)
    /\ ret.excellent = 1
    /\ ret.good = 1
    /\ ret.needs_improvement = 0

\* The issue texts an alert entry may carry, and whether a score meets the
\* condition of each.
IssueHolds(score, issue, performance_threshold, behavior_threshold) ==
    CASE issue = "Low performance" ->
            RLess(score.final_performance, performance_threshold)
      [] issue = "Behavior issues" ->
            RLess(score.weighted_behavior_score, behavior_threshold)
      [] issue = "High idle time" -> RLess(RInt(2), score.idle_hours)
      [] issue = "Conduct flag raised" -> score.conduct_flag = 1

IssueTexts == {"Low performance", "Behavior issues", "High idle time",
               "Conduct flag raised"}

\* The alert entries of the report returned, none for the no-alerts text.
ReportedAlerts == IF "alerts" \in DOMAIN ret THEN ret.alerts ELSE <<>>

\* C22: generate_alert_report has an alert entry for a score exactly when
\* final_performance < performance_threshold, weighted_behavior_score <
\* behavior_threshold, idle_hours > 2.0 or the conduct flag holds for it; the
\* entry carries one issue for each of these that holds and no other, and a
\* score for which none holds, a value equal to a threshold included, has
\* no entry.
C22_AlertsIffCondition ==
    op.name = "generate_alert_report" =>
        LET flagged == SelectSeq(op.scores, LAMBDA s :
                            \E t \in IssueTexts :
                                IssueHolds(s, t, op.performance_threshold,
                                           op.behavior_threshold))
        IN  /\ Len(ReportedAlerts) = Len(flagged)
            /\ \A k \in DOMAIN flagged :
                    LET a == ReportedAlerts[k]
                        said == { a.issues[j].issue : j \in DOMAIN a.issues }
                    IN  /\ a.emp_id = flagged[k].emp_id
                        /\ a.date = flagged[k].date
                        /\ a.employee = flagged[k].name
                        /\ Len(a.issues) = Cardinality(said)
                        /\ said = { t \in IssueTexts :
                                      IssueHolds(flagged[k], t,
                                                 op.performance_threshold,
                                                 op.behavior_threshold) }

\* The default thresholds over two scores: one of 89 with exactly two idle
\* hours, which gets no entry, and one of 6.5 with three idle hours and the
\* conduct flag, whose entry carries all four issues.
C22_Witness ==
    /\ op.name = "generate_alert_report"
    /\ op.performance_threshold = RInt(70)
    /\ op.behavior_threshold = RInt(5)
    /\ Len(op.scores) = 2
    /\ op.scores[1].final_performance = RInt(89)
    /\ op.scores[1].idle_hours = RInt(2)
    /\ op.scores[2].conduct_flag = 1
    /\ Len(ReportedAlerts) = 1
    /\ ReportedAlerts[1].emp_id = op.scores[2].emp_id
    /\ Len(ReportedAlerts[1].issues) = 4

\* C23: add_custom_task raises nothing and writes the standard of its
\* arguments under the name, whether or not the name was registered, leaving
\* every other name's standard as it was; no other operation changes the
\* registry; and get_task_standard and get_score answer from the registry
\* as it stands.  So after any sequence of registrations both use the most
\* recent registration of a name.
C23_LastRegistrationWins ==
    [][ /\ op'.name = "add_custom_task" =>
            /\ ret' = Done
            /\ DOMAIN standards' = DOMAIN standards \cup {op'.task_name}
            /\ standards'[op'.task_name] =
                    TaskStandard(op'.task_name, op'.ec_category,
                                 op'.base_score, op'.target_daily)
            /\ \A x \in DOMAIN standards \ {op'.task_name} :
                    standards'[x] = standards[x]
        /\ op'.name # "add_custom_task" => standards' = standards
        /\ op'.name = "get_task_standard" =>
            ret' = IF op'.task_name \in DOMAIN standards'
                   THEN standards'[op'.task_name] ELSE NoneVal
        /\ op'.name = "get_score" =>
            ret'.value = IF op'.task_name \in DOMAIN standards'
                         THEN RInt(op'.count * standards'[op'.task_name].base_score)
                         ELSE RInt(0)
      ]_vars

\* "Appeal", a default task of base score 10, registered again with base
\* score 12 beside a new task: get_score answers with 12 per completion.
C23_Witness ==
    /\ op.name = "get_score"
    /\ op.task_name = "Appeal"
    /\ op.count = 2
    /\ ret.value = RInt(24)
    /\ "Prior Auth Review" \in DOMAIN standards
    /\ "Authorization Created" \in DOMAIN standards
    /\ standards["Authorization Created"].base_score = 45

\* C24: a StandardsDatabase constructed with a custom mapping, the empty
\* mapping included, holds exactly the tasks of that mapping and none of the
\* default seed entries.
C24_CustomReplacesDefaults ==
    (op.name = "__init__" /\ op.custom_standards.given) =>
        DOMAIN standards = op.custom_standards.tasks

\* The place of an employee's first entry in the log.
FirstEntry(emp_id) ==
    CHOOSE k \in DOMAIN activities :
        /\ activities[k].emp_id = emp_id
        /\ \A l \in 1..(k - 1) : activities[l].emp_id # emp_id

\* C25: employees of exactly equal final_performance on a date are returned
\* by calculate_all_employees in the order in which they first appear in the
\* log, so the log determines the order of the result.
C25_TiesInInsertionOrder ==
    (op.name = "calculate_all_employees" /\ ret.kind = "list") =>
        \A i, j \in DOMAIN ret.value :
            (i < j /\ ret.value[i].final_performance
                        = ret.value[j].final_performance)
                => FirstEntry(ret.value[i].emp_id) < FirstEntry(ret.value[j].emp_id)

\* The values a PerformanceScore row carries besides its key.
ScoreValues(row) ==
    <<row.total_task_points, row.productivity_percent, row.weighted_prod_score,
      row.behavior_score_raw, row.weighted_behavior_score,
      row.final_performance_percent, row.task_count, row.idle_hours,
      row.conduct_flag>>

\* C26: the PerformanceScore rows hold at most one row per employee and
\* date; a calculation that produces a score for an employee and a date
\* leaves the row of that employee and date with the values it returns,
\* which are those of the activities and the daily metric of that moment;
\* and no other step, a change of activities or daily metrics included,
\* touches the row.  So the row always holds the values of the most recent
\* calculation that produced a score.
C26_OneScoreOfLatestCalculation ==
    [][ LET rows == db.performance_scores
            rows2 == db'.performance_scores
            calculated ==
                IF op'.name = "calculate_for_employee" /\ ret' # NoneVal
                THEN {ret'}
                ELSE IF op'.name = "calculate_for_all_employees"
                THEN { ret'.value[i] : i \in DOMAIN ret'.value }
                ELSE {}
        IN  /\ \A k, l \in DOMAIN rows2 :
                (rows2[k].emp_id = rows2[l].emp_id /\ rows2[k].date = rows2[l].date)
                    => k = l
            /\ \A r \in calculated :
                /\ r.date = op'.target_date
                /\ op'.name = "calculate_for_employee" => r.emp_id = op'.emp_id
                /\ \E k \in DOMAIN rows2 : rows2[k] = r
                /\ \E metric \in FirstMetric(db, r.emp_id, r.date) :
                      ScoreValues(r) =
                        ScoreValues(WebScore(db, r.emp_id, r.date, metric))
            /\ \A k \in DOMAIN rows2 :
                \/ \E r \in calculated :
                        r.emp_id = rows2[k].emp_id /\ r.date = rows2[k].date
                \/ k \in DOMAIN rows /\ rows2[k] = rows[k]
            /\ DOMAIN rows \subseteq DOMAIN rows2
      ]_vars

\* A second calculation for an employee and date after the count of the
\* activity was changed: the one row holds the new points (3 x 45), not the
\* points of the first calculation (8 x 45).
C26_Witness ==
    /\ op.name = "calculate_for_employee"
    /\ op.emp_id = "EMP001"
    /\ ret # NoneVal
    /\ Len(db.activities) = 1
    /\ db.activities[1].count = 3
    /\ ret.total_task_points = RInt(135)
    /\ ret.idle_hours = Half
    /\ db.performance_scores[ScoreId("EMP001", 20251103)] = ret

\* C27: in every state of a PerformanceCalculator, whatever
\* daily_target_points it was constructed with and whatever set_daily_target
\* calls followed, daily_target is strictly positive.
C27_DailyTargetPositive == daily_target > 0

\* C28: when calculate_for_all_employees(date) has completed, the employees
\* with a PerformanceScore row of that date, which the leaderboard and the
\* statistics read, are the employees with at least one Activity row of that
\* date, whatever creations, updates and deletions of activities came before.
C28_ScoresMatchActivities ==
    op.name = "calculate_for_all_employees" =>
        { db.performance_scores[k].emp_id :
            k \in { q \in DOMAIN db.performance_scores :
                        db.performance_scores[q].date = op.target_date } }
        = WebEmpIdsOn(db, op.target_date)

\* C29: each row of get_employee_trend carries the productivity percentage,
\* the weighted productivity, the raw and the weighted behaviour and the
\* final performance that calculate_employee_performance returns for the
\* employee and the date of the row, not rounded.
C29_TrendRowsUnrounded ==
    (op.name = "get_employee_trend" /\ ret.kind = "DataFrame") =>
        \A i \in DOMAIN ret.value :
            LET row == ret.value[i]
                score == calculate_employee_performance(
                            standards, daily_target, activities, employees,
                            row.Emp_ID, row.Date)
            IN  /\ row.Productivity_Pct = score.productivity_percentage
                /\ row.Weighted_Prod_Score = score.weighted_prod_score
                /\ row.Behavior_Score_Raw = score.behavior_score_raw
                /\ row.Weighted_Behavior_Score = score.weighted_behavior_score
                /\ row.Final_Performance_Pct = score.final_performance

\* The date text the core engine uses for a date of the web service.
DateText(d) == IF d = 20251103 THEN "2025-11-03" ELSE "2025-11-04"

\* The idle hours and conduct flag of an employee's day in the web service:
\* those of a DailyMetric row of the day, 0 and 0 when there is none.
DayMetrics(emp_id, target_date) ==
    IF WebMetricRows(db, emp_id, target_date) = {} THEN { <<RInt(0), 0>> }
    ELSE { <<db.daily_metrics[i].idle_hours, db.daily_metrics[i].conduct_flag>> :
            i \in WebMetricRows(db, emp_id, target_date) }

\* The log of the core engine with the same inputs: one entry for each
\* Activity row of the employee and date, with the name of the row's task,
\* its count, and the day's idle hours and conduct flag.
CoreLog(emp_id, target_date, day) ==
    LET acts == WebActivities(db, emp_id, target_date)
    IN  [i \in DOMAIN acts |->
            ActivityEntry(DateText(target_date), emp_id,
                          db.task_standards[acts[i].task_id].task_name,
                          acts[i].count, day[1], day[2])]

\* C30: on the same inputs (the employee's activities of the date with the
\* same counts and base scores, the day's idle hours and conduct flag, the
\* default configuration) calculate_for_employee of the web service returns
\* a score exactly when calculate_employee_performance of the core does, and
\* with the same total task points, productivity percentage, weighted
\* productivity, raw and weighted behaviour and final performance.
C30_WebEqualsCore ==
    (/\ op.name = "calculate_for_employee"
     /\ \A t \in DOMAIN db.task_standards :
            /\ db.task_standards[t].task_name \in DOMAIN standards
            /\ standards[db.task_standards[t].task_name].base_score
                    = db.task_standards[t].base_score) =>
        \E day \in DayMetrics(op.emp_id, op.target_date) :
            LET core == calculate_employee_performance(
                            standards, daily_target,
                            CoreLog(op.emp_id, op.target_date, day), employees,
                            op.emp_id, DateText(op.target_date))
            IN  /\ ret = NoneVal <=> core = NoneVal
                /\ ret # NoneVal =>
                    /\ core.kind = "PerformanceScore"
                    /\ ret.idle_hours = day[1]
                    /\ ret.conduct_flag = day[2]
                    /\ ret.total_task_points = core.total_task_points
                    /\ ret.productivity_percent = core.productivity_percentage
                    /\ ret.weighted_prod_score = core.weighted_prod_score
                    /\ ret.behavior_score_raw = core.behavior_score_raw
                    /\ ret.weighted_behavior_score = core.weighted_behavior_score
                    /\ ret.final_performance_percent = core.final_performance

\* A score of two activities of different tasks on a day with three idle
\* hours and the conduct flag: 380 points, final performance 87.5.
C30_Witness ==
    /\ op.name = "calculate_for_employee"
    /\ ret # NoneVal
    /\ ret.task_count = 2
    /\ ret.total_task_points = RInt(380)
    /\ ret.idle_hours = RInt(3)
    /\ ret.conduct_flag = 1
    /\ ret.final_performance_percent = Rat(175, 2)

============================================================================
